---- MODULE Spec2Model ----
(***************************************************************************)
(* Model of the MFSU numerical core: the fractional operator, the time     *)
(* stepper, the simulation loops and the stability aggregation.            *)
(*                                                                         *)
(* Numbers.  JavaScript numbers are modelled on an integer grid: a finite  *)
(* number is an integer in -MaxFinite..MaxFinite, and the three IEEE       *)
(* specials are the values PosInf, NegInf and NaN outside that range.      *)
(* Arithmetic saturates to the infinities and propagates NaN as IEEE       *)
(* arithmetic does.  Field values are counted in units of 0.005 (the       *)
(* largest jitter 0.01 * 0.5 of the initial condition); a draw of          *)
(* Math.random() - 0.5 is counted in units of 0.5.                         *)
(***************************************************************************)
EXTENDS Integers, Sequences, FiniteSets, TLC

VARIABLES
    op,           \* SpecOp: a fractionalLaplacian call, its arguments and outcome
    call,         \* the arguments of the call under way (chosen by the caller)
    pc,           \* position of the running handler
    initialized,  \* StabilityAnalysis.initialized (analysisMethods is set)
    rng,          \* state of the ambient Math.random() stream
    heap,         \* array storage: address -> array contents
    noise,        \* hurstNoise of the running simulation: one address per row
    run,          \* locals of the running simulation loop
    mainSim,      \* mainSimulation of analyzeStability
    pertSim,      \* perturbedSimulation of analyzeStability
    results,      \* StabilityAnalysis.results
    ret,          \* what the call returned or threw
    ghost         \* history: bookkeeping of the executed steps

vars == <<op, call, pc, initialized, rng, heap, noise, run, mainSim, pertSim,
          results, ret, ghost>>

runVars == <<call, pc, initialized, rng, heap, noise, run, mainSim, pertSim,
             results, ret, ghost>>

-----------------------------------------------------------------------------
(* Bounds of the model *)

MaxFinite == 2000000000
MaxN == 4
MaxOrder == 4
MaxVal == 1

-----------------------------------------------------------------------------
(* IEEE-style numbers on the integer grid *)

PosInf == MaxFinite + 1
NegInf == -(MaxFinite + 1)
NaN == MaxFinite + 2

IsNaN(a) == a = NaN
IsFinite(a) == a >= -MaxFinite /\ a <= MaxFinite
IsInf(a) == a = PosInf \/ a = NegInf

Neg(a) == IF IsNaN(a) THEN NaN ELSE -a

Add(a, b) ==
    IF IsNaN(a) \/ IsNaN(b) THEN NaN
    ELSE IF a = PosInf THEN (IF b = NegInf THEN NaN ELSE PosInf)
    ELSE IF a = NegInf THEN (IF b = PosInf THEN NaN ELSE NegInf)
    ELSE IF IsInf(b) THEN b
    ELSE IF a > 0 /\ b > MaxFinite - a THEN PosInf
    ELSE IF a < 0 /\ b < (-MaxFinite) - a THEN NegInf
    ELSE a + b

Sub(a, b) == Add(a, Neg(b))

AbsInt(a) == IF a < 0 THEN -a ELSE a

SignInt(a) == IF a > 0 THEN 1 ELSE IF a < 0 THEN -1 ELSE 0

Mul(a, b) ==
    IF IsNaN(a) \/ IsNaN(b) THEN NaN
    ELSE IF a = 0 \/ b = 0 THEN (IF IsInf(a) \/ IsInf(b) THEN NaN ELSE 0)
    ELSE IF IsInf(a) \/ IsInf(b)
         THEN (IF SignInt(a) = SignInt(b) THEN PosInf ELSE NegInf)
    ELSE IF AbsInt(a) > MaxFinite \div AbsInt(b)
         THEN (IF SignInt(a) = SignInt(b) THEN PosInf ELSE NegInf)
    ELSE a * b

\* Math.abs
MathAbs(a) == IF IsNaN(a) THEN NaN ELSE AbsInt(a)

\* Math.sign: NaN for NaN, otherwise -1, 0 or 1
MathSign(a) == IF IsNaN(a) THEN NaN ELSE SignInt(a)

\* a > b of JavaScript: false as soon as one side is NaN
Gt(a, b) == ~IsNaN(a) /\ ~IsNaN(b) /\ a > b

\* a < b of JavaScript
Lt(a, b) == ~IsNaN(a) /\ ~IsNaN(b) /\ a < b

\* Math.max(...a): -Infinity for no argument, NaN as soon as one is NaN
MathMax(a) ==
    IF \E i \in 1..Len(a) : IsNaN(a[i]) THEN NaN
    ELSE IF Len(a) = 0 THEN NegInf
    ELSE CHOOSE m \in {a[i] : i \in 1..Len(a)} :
             \A i \in 1..Len(a) : a[i] <= m

RECURSIVE SqrtSearch(_, _, _)
SqrtSearch(m, lo, hi) ==
    IF lo >= hi THEN lo
    ELSE LET mid == (lo + hi + 1) \div 2
         IN  IF mid * mid <= m THEN SqrtSearch(m, mid, hi)
             ELSE SqrtSearch(m, lo, mid - 1)

\* floor of the square root of a finite natural number
ISqrt(m) == SqrtSearch(m, 0, 46340)

-----------------------------------------------------------------------------
(* JavaScript arrays as sequences, indexed from 0 *)

\* a[i] read inside an arithmetic expression: undefined behaves as NaN
At(a, i) == IF i >= 0 /\ i < Len(a) THEN a[i + 1] ELSE NaN

\* a[i] = v: replaces an element, appends at i = length; a negative index
\* sets a property and leaves the elements alone
SetAt(a, i, v) ==
    IF i >= 0 /\ i < Len(a) THEN [a EXCEPT ![i + 1] = v]
    ELSE IF i = Len(a) THEN Append(a, v)
    ELSE a

\* new Array(n).fill(0)
Zeros(n) == [i \in 1..n |-> 0]

-----------------------------------------------------------------------------
(* The fractional operator (-Delta)^(order/2), one definition per           *)
(* implementation.  invDx2 stands for 1 / (dx * dx).                       *)

StabilityEps == 1
SolverTolerance == 1
ConvergenceEps == 1
MathUtilsEps == 1

\* (next - 2 * mid + prev) / (dx * dx)
Stencil(next, mid, prev, invDx2) ==
    Mul(Add(Sub(next, Mul(2, mid)), prev), invDx2)

\* a fresh array of n zeros, its interior filled from a, then the two
\* periodic boundary assignments
FreshLaplacian(a, n, invDx2) ==
    LET interior == [i \in 1..n |->
                        IF i - 1 >= 1 /\ i - 1 < n - 1
                        THEN Stencil(At(a, i), At(a, i - 1), At(a, i - 2), invDx2)
                        ELSE 0]
        first == SetAt(interior, 0,
                       Stencil(At(a, 1), At(a, 0), At(a, n - 1), invDx2))
    IN  SetAt(first, n - 1,
              Stencil(At(a, 0), At(a, n - 1), At(a, n - 2), invDx2))

\* for (i = 1; i < n - 1; i++) r[i] = (r[i+1] - 2 r[i] + r[i-1]) / dx^2,
\* each assignment reading what the previous ones wrote
RECURSIVE InPlaceInterior(_, _, _, _)
InPlaceInterior(r, i, n, invDx2) ==
    IF i >= n - 1 THEN r
    ELSE InPlaceInterior(
             SetAt(r, i, Stencil(At(r, i + 1), At(r, i), At(r, i - 1), invDx2)),
             i + 1, n, invDx2)

\* one sweep of the Laplacian written into the array it reads
InPlaceLaplacian(r, n, invDx2) ==
    LET interior == InPlaceInterior(r, 1, n, invDx2)
        first == SetAt(interior, 0,
                       Stencil(At(interior, 1), At(interior, 0),
                               At(interior, n - 1), invDx2))
    IN  SetAt(first, n - 1,
              Stencil(At(first, 0), At(first, n - 1), At(first, n - 2), invDx2))

\* for (iter = 1; iter < Math.floor(fracPower); iter++), fresh array per sweep
RECURSIVE IterateFresh(_, _, _, _)
IterateFresh(current, n, invDx2, sweeps) ==
    IF sweeps <= 0 THEN current
    ELSE IterateFresh(FreshLaplacian(current, n, invDx2), n, invDx2, sweeps - 1)

\* the same loop sweeping in place
RECURSIVE IterateInPlace(_, _, _, _)
IterateInPlace(r, n, invDx2, sweeps) ==
    IF sweeps <= 0 THEN r
    ELSE IterateInPlace(InPlaceLaplacian(r, n, invDx2), n, invDx2, sweeps - 1)

\* number of further sweeps: Math.floor(order / 2) - 1
ExtraSweeps(order) == (order \div 2) - 1

\* Math.pow(magnitude, order / 2) for order / 2 < 1: order 0 gives 1 for
\* every magnitude, order 1 the square root
PowFrac(magnitude, order) ==
    IF order = 0 THEN 1
    ELSE IF IsNaN(magnitude) THEN NaN
    ELSE IF magnitude = PosInf THEN PosInf
    ELSE ISqrt(magnitude)

\* Math.pow(Math.abs(l) + eps, fracPower) * Math.sign(l)
CaputoEntrySignless(l, order, eps) ==
    PowFrac(Add(MathAbs(l), eps), order)

CaputoEntry(l, order, eps) ==
    Mul(PowFrac(Add(MathAbs(l), eps), order), MathSign(l))

\* for (i = 0; i < n; i++) result[i] = ...
Caputo(laplacian, n, order, eps) ==
    [i \in 1..n |-> CaputoEntry(At(laplacian, i - 1), order, eps)]

Returned(value) == [kind |-> "return", value |-> value, error |-> "none"]
Thrown(error) == [kind |-> "throw", value |-> <<>>, error |-> error]

\* StabilityAnalysis.fractionalLaplacian: the branch fracPower >= 1 ends in
\* an assignment to the const binding result, which throws a TypeError
StabilityFractionalLaplacian(psi, invDx2, order) ==
    LET n == Len(psi)
        laplacian == FreshLaplacian(psi, n, invDx2)
    IN  IF order < 2
        THEN Returned(Caputo(laplacian, n, order, StabilityEps))
        ELSE Thrown("TypeError")

\* MFSUSolver.fractionalLaplacian (docs/mfsu-solver.js)
SolverFractionalLaplacian(psi, invDx2, order) ==
    LET n == Len(psi)
        laplacian == FreshLaplacian(psi, n, invDx2)
    IN  IF order < 2
        THEN Returned(Caputo(laplacian, n, order, SolverTolerance))
        ELSE Returned(IterateFresh(laplacian, n, invDx2, ExtraSweeps(order)))

\* MFSUConvergenceAnalysis.fractionalLaplacian (docs/convergence-analysis.js)
ConvergenceFractionalLaplacian(psi, invDx2, order) ==
    LET n == Len(psi)
        laplacian == FreshLaplacian(psi, n, invDx2)
    IN  IF order < 2
        THEN Returned(Caputo(laplacian, n, order, ConvergenceEps))
        ELSE Returned(IterateInPlace(laplacian, n, invDx2, ExtraSweeps(order)))

\* MathUtils.fractionalLaplacian
MathUtilsFractionalLaplacian(psi, invDx2, order) ==
    LET n == Len(psi)
        laplacian == FreshLaplacian(psi, n, invDx2)
    IN  IF order < 2
        THEN Returned(Caputo(laplacian, n, order, MathUtilsEps))
        ELSE Returned(IterateInPlace([i \in 1..n |-> At(laplacian, i - 1)],
                                     n, invDx2, ExtraSweeps(order)))

\* the indices outside 0..n-1 that the two boundary assignments read
OutOfRangeReads(n) == {i \in {0, 1, n - 1, n - 2} : i < 0 \/ i >= n}

-----------------------------------------------------------------------------
(* SpecOp: calls of the operator on bounded inputs *)

FieldValues == (-1)..MaxVal
Fields == UNION {[1..n -> FieldValues] : n \in 0..MaxN}
InvDx2Values == {1, 4}
Orders == 0..MaxOrder

NoOutcome == Returned(<<>>)

\* a call not yet made, with the arguments it will be made with
Pending(psi, invDx2, order) ==
    [impl |-> "none", psi |-> psi, invDx2 |-> invDx2, order |-> order,
     out |-> NoOutcome, reads |-> {}]

Null == [null |-> TRUE]
IsNull(x) == "null" \in DOMAIN x

RunIdle ==
    /\ call = Null
    /\ pc = "idle"
    /\ initialized = FALSE
    /\ rng = 0
    /\ heap = <<>>
    /\ noise = <<>>
    /\ run = Null
    /\ mainSim = Null
    /\ pertSim = Null
    /\ results = Null
    /\ ret = Null
    /\ ghost = Null

OpInit ==
    /\ \E psi \in Fields, g \in InvDx2Values, order \in Orders :
           op = Pending(psi, g, order)
    /\ RunIdle

Called(impl, out) ==
    /\ op.impl = "none"
    /\ op' = [op EXCEPT !.impl = impl, !.out = out,
                        !.reads = OutOfRangeReads(Len(op.psi))]

CallStability ==
    /\ Called("StabilityAnalysis",
              StabilityFractionalLaplacian(op.psi, op.invDx2, op.order))
    /\ UNCHANGED runVars

CallSolver ==
    /\ Called("MFSUSolver",
              SolverFractionalLaplacian(op.psi, op.invDx2, op.order))
    /\ UNCHANGED runVars

CallConvergence ==
    /\ Called("MFSUConvergenceAnalysis",
              ConvergenceFractionalLaplacian(op.psi, op.invDx2, op.order))
    /\ UNCHANGED runVars

CallMathUtils ==
    /\ Called("MathUtils",
              MathUtilsFractionalLaplacian(op.psi, op.invDx2, op.order))
    /\ UNCHANGED runVars

OpNext == CallStability \/ CallSolver \/ CallConvergence \/ CallMathUtils

SpecOp == OpInit /\ [][OpNext]_vars

-----------------------------------------------------------------------------
(* Claims about the operator, checked under SpecOp *)

\* the periodic second-order Laplacian with indices taken modulo N
PlainLaplacian(psi, invDx2) ==
    LET n == Len(psi)
    IN  [i \in 1..n |->
            (psi[(i % n) + 1] - 2 * psi[i] + psi[((i - 2 + n) % n) + 1]) * invDx2]

RECURSIVE IteratedPlain(_, _, _)
IteratedPlain(psi, invDx2, times) ==
    IF times <= 0 THEN psi
    ELSE IteratedPlain(PlainLaplacian(psi, invDx2), invDx2, times - 1)

OpCalled == op.impl # "none"

\* C1: for N >= 3 and order = 2, StabilityAnalysis.fractionalLaplacian and
\* MFSUSolver.fractionalLaplacian return normally the plain periodic
\* second-order Laplacian.
C1_ClassicalLimit ==
    (op.impl \in {"StabilityAnalysis", "MFSUSolver"}
        /\ op.order = 2 /\ Len(op.psi) >= 3)
    => (op.out.kind = "return"
        /\ op.out.value = PlainLaplacian(op.psi, op.invDx2))

\* C2: for order / 2 >= 1, MFSUSolver, MFSUConvergenceAnalysis and MathUtils
\* return the Laplacian applied floor(order / 2) times, each application
\* computed from the complete output of the previous one.
C2_IteratedLaplacian ==
    (op.impl \in {"MFSUSolver", "MFSUConvergenceAnalysis", "MathUtils"}
        /\ op.order >= 2 /\ Len(op.psi) >= 3)
    => (op.out.kind = "return"
        /\ op.out.value = IteratedPlain(op.psi, op.invDx2, op.order \div 2))

\* C3: for order / 2 < 1 and N >= 3, every implementation returns a field of
\* length N whose entries carry the sign of the discrete Laplacian, and are
\* 0 exactly where the Laplacian is 0.
C3_CaputoSign ==
    (OpCalled /\ op.order < 2 /\ Len(op.psi) >= 3)
    => (/\ op.out.kind = "return"
        /\ Len(op.out.value) = Len(op.psi)
        /\ \A i \in 1..Len(op.psi) :
               SignInt(op.out.value[i])
                   = SignInt(PlainLaplacian(op.psi, op.invDx2)[i]))

\* a Caputo call whose Laplacian has a zero, a positive and a negative entry
C3_Witness ==
    /\ op.impl = "StabilityAnalysis"
    /\ op.order = 1
    /\ Len(op.psi) >= 3
    /\ op.out.kind = "return"
    /\ \E i, j, k \in 1..Len(op.psi) :
           /\ PlainLaplacian(op.psi, op.invDx2)[i] = 0 /\ op.out.value[i] = 0
           /\ PlainLaplacian(op.psi, op.invDx2)[j] > 0 /\ op.out.value[j] > 0
           /\ PlainLaplacian(op.psi, op.invDx2)[k] < 0 /\ op.out.value[k] < 0

\* C4: on a field of fewer than 3 points the operator fails with
\* InvalidGridSize, returns no field and reads no index outside 0..N-1.
C4_InvalidGridSize ==
    (OpCalled /\ Len(op.psi) < 3)
    => (op.out.kind = "throw" /\ op.out.error = "InvalidGridSize"
        /\ op.reads = {})


-----------------------------------------------------------------------------
(* Simulation runs.  Field values live on a grid of 0.005; a value of       *)
(* Math.random() - 0.5 lives on a grid of 0.5, so that the jitter          *)
(* 0.01 * (Math.random() - 0.5) of an initial field is one grid unit.      *)

MaxNx == 3
MaxNt == 12
MaxSeed == 2
CoefScale == 1000

\* Math.random(): the ambient stream advances by one state per call
LcgNext(x) == (5 * x + 3) % 16

RECURSIVE StateAfter(_, _)
StateAfter(x, k) == IF k <= 0 THEN x ELSE StateAfter(LcgNext(x), k - 1)

\* Math.random() - 0.5 drawn in state x, in units of 0.5
RandomCentered(x) == ((x \div 2) % 3) - 1

\* the deterministic part of the 'multimode' profile, rounded to the grid
MultimodeProfile(nx) ==
    CASE nx = 3 -> <<0, 8, -8>>
      [] nx = 4 -> <<0, 11, 0, -11>>
      [] nx = 5 -> <<0, 10, -1, 1, -10>>
      [] OTHER  -> Zeros(nx)

\* generateInitialConditions(nx, 'multimode'): one draw per grid point
GenerateInitialConditions(x, nx) ==
    [i \in 1..nx |->
        Add(MultimodeProfile(nx)[i], RandomCentered(StateAfter(x, i - 1)))]

\* a / 2 and a / CoefScale, rounded toward zero
Scaled(a, d) ==
    IF IsNaN(a) \/ IsInf(a) THEN a
    ELSE IF a < 0 THEN -((-a) \div d) ELSE a \div d

Half(a) == Scaled(a, 2)

\* generatePerturbation(nx, amplitude): amplitude * (Math.random() - 0.5)
GeneratePerturbation(x, nx, amplitude) ==
    [i \in 1..nx |->
        Half(Mul(amplitude, RandomCentered(StateAfter(x, i - 1))))]

\* psi.map((val, i) => val + perturbation[i])
AddFields(psi, perturbation) ==
    [i \in 1..Len(psi) |-> Add(psi[i], At(perturbation, i - 1))]

\* Math.pow(i + 1, -hurst): the exponent base one past the loop index
CorrelationOfNext(i, hurst2) ==
    CASE hurst2 = 0 -> CoefScale
      [] hurst2 = 1 -> ISqrt((CoefScale * CoefScale) \div (i + 1))
      [] OTHER      -> CoefScale \div (i + 1)

\* Math.pow(i, -hurst) in units of 1 / CoefScale; hurst counted in halves
Correlation(i, hurst2) ==
    CASE hurst2 = 0 -> CoefScale
      [] hurst2 = 1 -> ISqrt((CoefScale * CoefScale) \div i)
      [] OTHER      -> CoefScale \div i

\* Math.sqrt(1 - correlation * correlation)
Normalization(c) == ISqrt(CoefScale * CoefScale - c * c)

RECURSIVE CorrelateThroughEnd(_, _, _, _)
\* the correlation loop running while i <= nx
CorrelateThroughEnd(corr, raw, i, hurst2) ==
    IF i > Len(raw) THEN corr
    ELSE LET c == Correlation(i, hurst2)
             v == Scaled(Add(Mul(c, At(corr, i - 1)),
                             Mul(Normalization(c), At(raw, i))), CoefScale)
         IN  CorrelateThroughEnd(SetAt(corr, i, v), raw, i + 1, hurst2)

\* for (i = 1; i < nx; i++) correlatedNoise[i] = correlation *
\* correlatedNoise[i-1] + normalization * spatialNoise[i]
RECURSIVE Correlate(_, _, _, _)
Correlate(corr, raw, i, hurst2) ==
    IF i >= Len(raw) THEN corr
    ELSE LET c == Correlation(i, hurst2)
             v == Scaled(Add(Mul(c, At(corr, i - 1)),
                             Mul(Normalization(c), At(raw, i))), CoefScale)
         IN  Correlate(SetAt(corr, i, v), raw, i + 1, hurst2)

\* StabilityAnalysis.generateHurstNoise: nt rows of nx draws, in units of 0.5
GenerateHurstNoise(x, nx, nt, hurst2) ==
    [t \in 1..nt |->
        LET spatialNoise ==
                [i \in 1..nx |->
                    RandomCentered(StateAfter(x, (t - 1) * nx + i - 1))]
        IN  Correlate(spatialNoise, spatialNoise, 1, hurst2)]

\* the literal 0.5 passed as hurst, in halves
StabilityHurst == 1

\* Math.pow(v, 3)
Cube(v) == Mul(Mul(v, v), v)

\* -gamma * Math.pow(v, 3): the cube of a finite field value is finite in
\* double precision, so gamma = 0 gives 0 although Cube saturates
Nonlinear(gamma, v) ==
    IF gamma = 0 /\ IsFinite(v) THEN 0 ELSE Mul(Neg(gamma), Cube(v))

\* one entry of the Euler update:
\* psi[i] + dt * (diffusion + stochastic + nonlinear + forcing)
EulerEntry(v, frac, stochastic, p) ==
    Add(v, Mul(p.dt, Add(Add(Add(Mul(p.alpha, frac), stochastic),
                             Nonlinear(p.gamma, v)), 0)))

\* StabilityAnalysis.evolveTimeStep; the noise row is in units of 0.5
EvolveTimeStep(psi, p, invDx2, noiseRow) ==
    LET nx == Len(psi)
        fractalTerm == StabilityFractionalLaplacian(psi, invDx2, p.fractalDim)
    IN  IF fractalTerm.kind = "throw" THEN fractalTerm
        ELSE Returned(
                 [i \in 1..nx |->
                     EulerEntry(psi[i], fractalTerm.value[i],
                                Half(Mul(Mul(p.beta, At(noiseRow, i - 1)),
                                         psi[i])), p)])

\* Math.max(...psi.map(x => Math.abs(x)))
MaxAmplitude(psi) == MathMax([i \in 1..Len(psi) |-> MathAbs(psi[i])])

\* 1e6 on the field grid
BlowUpThreshold == 200000000

\* if (maxAmp > 1e6) break
BlowUpGuard(psi) == Gt(MaxAmplitude(psi), BlowUpThreshold)


\* metrics are computed every 10 steps
SaveEvery == 10

\* options.saveInterval || 10, an omitted or zero interval counted as 0
DefaultSaveInterval == 10
SaveInterval(requested) ==
    IF requested = 0 THEN DefaultSaveInterval ELSE requested

\* if (t % saveInterval === 0)
SaveDueOnLastOfInterval(t, s) == (t + 1) % s = 0

SaveDue(t, s) == t % s = 0

\* assessBasicStability: finalAmp < 10 * initialAmp && !isNaN(finalAmp) &&
\* isFinite(finalAmp), the two amplitudes undefined for an empty series
AssessBasicStability(maxAmps) ==
    LET finalAmp == At(maxAmps, Len(maxAmps) - 1)
        initialAmp == At(maxAmps, 0)
    IN  Lt(finalAmp, Mul(10, initialAmp)) /\ ~IsNaN(finalAmp)
        /\ IsFinite(finalAmp)

-----------------------------------------------------------------------------
(* Array storage: an array is an address into heap *)

\* a newly allocated array
NewArray(h, contents) == [heap |-> Append(h, contents), addr |-> Len(h) + 1]

RECURSIVE NewArrays(_, _)
NewArrays(h, rows) ==
    IF rows = <<>> THEN [heap |-> h, addrs |-> <<>>]
    ELSE LET first == NewArray(h, Head(rows))
             rest == NewArrays(first.heap, Tail(rows))
         IN  [heap |-> rest.heap, addrs |-> <<first.addr>> \o rest.addrs]

\* const psiNew = new Array(nx), filled and returned
StepStore(h, src, psiNew) == NewArray(h, psiNew)

\* [...psi]
SnapshotAlias(h, src) == [heap |-> h, addr |-> src]

SnapshotPsi(h, src) == NewArray(h, h[src])

\* the state of a simulation loop before its first iteration
LoopStart(sim, psi) ==
    [sim |-> sim, t |-> 0, psi |-> psi, evolution |-> <<>>,
     maxAmplitude |-> <<>>, broke |-> FALSE]

\* one iteration of the loop of runStabilitySimulation (record =
\* options.saveEvolution) and of runPerturbedSimulation (record = TRUE)
StabilityIteration(r, h, p, invDx2, noiseRow, record) ==
    LET stepped == EvolveTimeStep(h[r.psi], p, invDx2, noiseRow)
    IN  IF stepped.kind = "throw"
        THEN [threw |-> TRUE, run |-> r, heap |-> h]
        ELSE
        LET st == StepStore(h, r.psi, stepped.value)
            psi == st.heap[st.addr]
            due == SaveDue(r.t, SaveEvery)
            snap == SnapshotPsi(st.heap, st.addr)
            amp == MaxAmplitude(psi)
            brk == BlowUpGuard(psi)
        IN  [threw |-> FALSE,
             heap |-> IF due /\ record THEN snap.heap ELSE st.heap,
             run |-> [r EXCEPT
                 !.psi = st.addr,
                 !.maxAmplitude =
                     IF due /\ r.sim = "main" THEN Append(@, amp) ELSE @,
                 !.evolution =
                     IF due /\ record
                     THEN Append(@, [time |-> Mul(r.t, p.dt),
                                     psi |-> snap.addr, maxAmplitude |-> amp])
                     ELSE @,
                 !.broke = brk,
                 !.t = IF brk THEN @ ELSE @ + 1]]

-----------------------------------------------------------------------------
(* MFSUSolver: Gaussian draws, initial field, noise, loop *)

\* the state x of the stream stands for the values of Math.random() in
\* [x / 16, (x + 1) / 16); Math.sqrt(-2 * Math.log(u)) at the midpoint, rounded
Magnitude(x) ==
    IF x = 0 THEN 3 ELSE IF x <= 4 THEN 2 ELSE IF x <= 13 THEN 1 ELSE 0

\* Math.sin(2 * Math.PI * v) and Math.cos(2 * Math.PI * v) at the midpoint
SinTurn(x) == IF x \in 1..6 THEN 1 ELSE IF x \in 9..14 THEN -1 ELSE 0
CosTurn(x) ==
    IF x \in {13, 14, 15, 0, 1, 2} THEN 1 ELSE IF x \in 5..10 THEN -1 ELSE 0

\* a solver just constructed: hasSpareGaussian is not set
FreshGenerator(x) == [rng |-> x, hasSpare |-> FALSE, spare |-> 0]

\* gaussianRandom(): Box-Muller with the second value kept for the next call
GaussianRandom(g) ==
    IF g.hasSpare
    THEN [value |-> g.spare, gen |-> [g EXCEPT !.hasSpare = FALSE]]
    ELSE LET u == g.rng
             v == LcgNext(u)
             mag == Magnitude(u)
         IN  [value |-> Mul(mag, SinTurn(v)),
              gen |-> [rng |-> LcgNext(v), hasSpare |-> TRUE,
                       spare |-> Mul(mag, CosTurn(v))]]

RECURSIVE GaussianDraws(_, _)
GaussianDraws(g, k) ==
    IF k <= 0 THEN [values |-> <<>>, gen |-> g]
    ELSE LET d == GaussianRandom(g)
             rest == GaussianDraws(d.gen, k - 1)
         IN  [values |-> <<d.value>> \o rest.values, gen |-> rest.gen]

\* the deterministic part of the 'fractal' profile, rounded to the grid
FractalProfile(nx) ==
    CASE nx = 3 -> <<0, 22, -14>>
      [] nx = 4 -> <<0, 11, 0, -11>>
      [] nx = 5 -> <<0, 0, 6, -10, -8>>
      [] OTHER  -> Zeros(nx)

\* generateInitialCondition(nx, 'fractal'): profile + 0.02 * gaussianRandom()
GenerateInitialCondition(g, nx) ==
    LET d == GaussianDraws(g, nx)
    IN  [psi |-> [i \in 1..nx |->
                     Add(FractalProfile(nx)[i], Mul(4, d.values[i]))],
         gen |-> d.gen]

\* MFSUSolver.generateHurstNoise
SolverHurstNoise(g, nx, nt, hurst2) ==
    LET d == GaussianDraws(g, nx * nt)
    IN  [rows |-> [t \in 1..nt |->
                      LET spatialNoise ==
                              [i \in 1..nx |-> d.values[(t - 1) * nx + i]]
                      IN  Correlate(spatialNoise, spatialNoise, 1, hurst2)],
         gen |-> d.gen]

\* one iteration of the loop of solve; forcingType is 'none'
SolveIteration(r, h, p, invDx2, noiseRow, saveInterval) ==
    LET old == h[r.psi]
        fractalTerm == SolverFractionalLaplacian(old, invDx2, p.fractalDim)
        psiNew == [i \in 1..Len(old) |->
                      EulerEntry(old[i], fractalTerm.value[i],
                                 Mul(Mul(p.beta, At(noiseRow, i - 1)), old[i]),
                                 p)]
        st == StepStore(h, r.psi, psiNew)
        due == SaveDue(r.t, saveInterval)
        snap == SnapshotPsi(st.heap, st.addr)
        amp == MaxAmplitude(st.heap[st.addr])
    IN  [heap |-> IF due THEN snap.heap ELSE st.heap,
         run |-> [r EXCEPT
             !.psi = st.addr,
             !.maxAmplitude = IF due THEN Append(@, amp) ELSE @,
             !.evolution =
                 IF due
                 THEN Append(@, [time |-> Mul(r.t, p.dt),
                                 psi |-> snap.addr, maxAmplitude |-> amp])
                 ELSE @,
             !.t = @ + 1]]


-----------------------------------------------------------------------------
(* The calls: analyzeStability(params, options) on a StabilityAnalysis and  *)
(* solve(params, nx, nt, options) on a fresh MFSUSolver                     *)

Methods == {"vonNeumann", "lyapunov", "energy", "spectral", "statistical"}

Params(alpha, beta, gamma, fractalDim, dt) ==
    [alpha |-> alpha, beta |-> beta, gamma |-> gamma,
     fractalDim |-> fractalDim, dt |-> dt, hurst |-> 1]

ParamSets ==
    { Params(1, 0, 0, 1, 1),      \* diffusion alone, order below 2
      Params(1, 40, 0, 1, 2),     \* strong multiplicative noise
      Params(1, 0, 1, 2, 1),      \* classical order 2 with the cubic term
      Params(NaN, 0, 0, 1, 1),    \* alpha is not a number
      Params(1, 0, 0, 1, 0),      \* dt = 0
      Params(1, 0, 0, 4, 1) }     \* order 4

\* perturbationAmplitude: 1e-6 is below the grid and counts as 0
DefaultAmplitude == 0
Amplitudes == {DefaultAmplitude, 2}
SaveIntervals == 0..3
Seeds == 0..MaxSeed
GridSizes == 3..MaxNx

AnalyzeCall(p, nx, nt, saveEvolution, amplitude, methods) ==
    [entry |-> "analyzeStability", params |-> p, nx |-> nx, nt |-> nt,
     saveEvolution |-> saveEvolution, perturbationAmplitude |-> amplitude,
     methods |-> methods]

SolveCall(p, nx, nt, saveInterval) ==
    [entry |-> "solve", params |-> p, nx |-> nx, nt |-> nt,
     saveInterval |-> saveInterval]

Sims == {"main", "perturbed", "solve"}

\* an array as it was when the history recorded it
Recorded(h, addr) == [addr |-> addr, psi |-> h[addr]]

\* history of each simulation: its initial field and noise rows as
\* generated, the field produced by each executed step, each checkpoint as
\* appended (with the loop index it was taken at and the number of steps
\* applied to its field), and the number of steps executed when it returned
NoHistory ==
    [sim \in Sims |->
        [init |-> <<>>, noise |-> <<>>, produced |-> <<>>, frozen |-> <<>>,
         steps |-> -1]]

Started(g, sim, h, init, rows) ==
    [g EXCEPT ![sim].init = <<Recorded(h, init)>>,
              ![sim].noise = [t \in 1..Len(rows) |-> Recorded(h, rows[t])]]

Stepped(g, r, h, rNew) ==
    [g EXCEPT ![r.sim].produced = Append(@, Recorded(h, rNew.psi)),
              ![r.sim].frozen =
                  IF Len(rNew.evolution) > Len(r.evolution)
                  THEN LET e == rNew.evolution[Len(rNew.evolution)]
                       IN  Append(@, [index |-> r.t, time |-> e.time,
                                      addr |-> e.psi, psi |-> h[e.psi],
                                      applied |->
                                          Len(g[r.sim].produced) + 1])
                  ELSE @]

Finished(g, r) == [g EXCEPT ![r.sim].steps = Len(g[r.sim].produced)]

\* a new analyzer / solver about to receive the call c, the ambient random
\* stream in state x
Fresh(c, x) ==
    /\ op = Null
    /\ call = c
    /\ pc = "idle"
    /\ initialized = FALSE
    /\ rng = x
    /\ heap = <<>>
    /\ noise = <<>>
    /\ run = Null
    /\ mainSim = Null
    /\ pertSim = Null
    /\ results = Null
    /\ ret = Null
    /\ ghost = NoHistory

\* 1 / (dx * dx) for dx = 1.0 / nx
InvDx2(nx) == nx * nx

\* initialize(): sets up analysisMethods once
Initialize ==
    /\ pc = "idle"
    /\ call.entry = "analyzeStability"
    /\ ~initialized
    /\ initialized' = TRUE
    /\ UNCHANGED <<op, call, pc, rng, heap, noise, run, mainSim, pertSim,
                   results, ret, ghost>>

\* analyzeStability entering runStabilitySimulation: initial field, noise
CallAnalyzeStability ==
    /\ pc = "idle"
    /\ call.entry = "analyzeStability"
    /\ \E rows \in {NewArrays(<<GenerateInitialConditions(rng, call.nx)>>,
                           GenerateHurstNoise(StateAfter(rng, call.nx),
                               call.nx, call.nt, StabilityHurst))} :
           /\ heap' = rows.heap
           /\ noise' = rows.addrs
           /\ rng' = StateAfter(rng, call.nx + call.nx * call.nt)
           /\ run' = LoopStart("main", 1)
           /\ ghost' = Started(ghost, "main", rows.heap, 1, rows.addrs)
    /\ pc' = "mainLoop"
    /\ UNCHANGED <<op, call, initialized, mainSim, pertSim, results, ret>>

\* one iteration of either loop; a throw of the step ends analyzeStability
SimulationStep(record) ==
    /\ run.t < call.nt
    /\ ~run.broke
    /\ \E it \in {StabilityIteration(run, heap, call.params, InvDx2(call.nx),
                                    heap[noise[run.t + 1]], record)} :
           IF it.threw
           THEN /\ pc' = "done"
                /\ ret' = Thrown("TypeError")
                /\ UNCHANGED <<heap, run, ghost>>
           ELSE /\ heap' = it.heap
                /\ run' = it.run
                /\ ghost' = Stepped(ghost, run, it.heap, it.run)
                /\ UNCHANGED <<pc, ret>>
    /\ UNCHANGED <<op, call, initialized, rng, noise, mainSim, pertSim,
                   results>>

MainStep == pc = "mainLoop" /\ SimulationStep(call.saveEvolution)

\* the loop is over (t = nt or break): runStabilitySimulation returns
MainReturn ==
    /\ pc = "mainLoop"
    /\ run.t >= call.nt \/ run.broke
    /\ mainSim' = [finalPsi |-> run.psi, evolution |-> run.evolution,
                   metrics |-> [maxAmplitude |-> run.maxAmplitude],
                   isStable |-> AssessBasicStability(run.maxAmplitude)]
    /\ ghost' = Finished(ghost, run)
    /\ pc' = "pertStart"
    /\ UNCHANGED <<op, call, initialized, rng, heap, noise, run, pertSim,
                   results, ret>>

\* runPerturbedSimulation up to its loop
PertStart ==
    /\ pc = "pertStart"
    /\ LET nx == call.nx
           base == NewArray(heap, GenerateInitialConditions(rng, nx))
           perturbation ==
               NewArray(base.heap,
                   GeneratePerturbation(StateAfter(rng, nx), nx,
                                        call.perturbationAmplitude))
           psi == NewArray(perturbation.heap,
                      AddFields(base.heap[base.addr],
                                perturbation.heap[perturbation.addr]))
       IN  \E rows \in {NewArrays(psi.heap,
                            GenerateHurstNoise(StateAfter(rng, 2 * nx), nx,
                                               call.nt, StabilityHurst))} :
               /\ heap' = rows.heap
               /\ noise' = rows.addrs
               /\ rng' = StateAfter(rng, 2 * nx + nx * call.nt)
               /\ run' = LoopStart("perturbed", Len(heap) + 3)
               /\ ghost' = Started(ghost, "perturbed", rows.heap,
                                   Len(heap) + 3, rows.addrs)
    /\ pc' = "pertLoop"
    /\ UNCHANGED <<op, call, initialized, mainSim, pertSim, results, ret>>

PertStep == pc = "pertLoop" /\ SimulationStep(TRUE)

PertReturn ==
    /\ pc = "pertLoop"
    /\ run.t >= call.nt \/ run.broke
    /\ pertSim' = [finalPsi |-> run.psi, evolution |-> run.evolution,
                   perturbationAmplitude |-> call.perturbationAmplitude]
    /\ ghost' = Finished(ghost, run)
    /\ pc' = "methods"
    /\ UNCHANGED <<op, call, initialized, rng, heap, noise, run, mainSim,
                   results, ret>>


-----------------------------------------------------------------------------
(* The stability methods and the report.  numeric is the verdict of the    *)
(* floating-point evidence where the grid does not decide it.               *)

Min(a, b) == IF a <= b THEN a ELSE b

\* vonNeumannAnalysis: every amplification factor of the modes 1..10 within
\* [-1, 1]; all factors are 1 for dt = 0, NaN for a NaN parameter, and
\* spread more than 2 apart when alpha * dt >= 1 and fractalDim >= 1
VonNeumannVerdict(p, numeric) ==
    IF IsNaN(p.alpha) \/ IsNaN(p.beta) \/ IsNaN(p.dt) THEN FALSE
    ELSE IF p.dt = 0 THEN TRUE
    ELSE IF Mul(p.alpha, p.dt) >= 1 /\ p.fractalDim >= 1 THEN FALSE
    ELSE numeric

\* lyapunovAnalysis: avgLyapunov <= 0, which is 0 without two checkpoints
LyapunovVerdict(main, pert, numeric) ==
    IF Min(Len(main.evolution), Len(pert.evolution)) < 2 THEN TRUE
    ELSE numeric

\* energyAnalysis: growth rate 0 unless there are two checkpoints
EnergyVerdict(main, numeric) ==
    IF Len(main.evolution) > 1 THEN numeric ELSE TRUE

\* spectralAnalysis: a spectrum of one entry has turbulence index 1 or NaN
SpectralVerdict(nx, numeric) ==
    IF nx \div 2 <= 1 THEN FALSE ELSE numeric

\* statisticalAnalysis: |trend| < 1e-4 && variance < mean * 0.1; the mean of
\* no amplitude is NaN, one amplitude has trend 0 and variance 0
StatisticalVerdict(main, numeric) ==
    LET n == Len(main.evolution)
    IN  IF n = 0 THEN FALSE
        ELSE IF n = 1
        THEN LET amp == main.evolution[1].maxAmplitude
             IN  IsFinite(amp) /\ amp > 0
        ELSE numeric

MethodVerdict(method, numeric, main, pert, c) ==
    CASE method = "vonNeumann"  -> VonNeumannVerdict(c.params, numeric)
      [] method = "lyapunov"    -> LyapunovVerdict(main, pert, numeric)
      [] method = "energy"      -> EnergyVerdict(main, numeric)
      [] method = "spectral"    -> SpectralVerdict(c.nx, numeric)
      [] method = "statistical" -> StatisticalVerdict(main, numeric)

\* a / b of two counts: NaN for 0 / 0
Divide(a, b) == [nan |-> (a = 0 /\ b = 0), num |-> a, den |-> b]

\* calculateConfidence: stableCount / methods.length
CalculateConfidence(analysisResults) ==
    Divide(Cardinality({m \in DOMAIN analysisResults :
                           analysisResults[m].isStable}),
           Cardinality(DOMAIN analysisResults))

\* compileResults
CompileResults(analysisResults, mainSimulation, p) ==
    [isStable |-> \A m \in DOMAIN analysisResults :
                      analysisResults[m].isStable,
     confidence |-> CalculateConfidence(analysisResults),
     analysisResults |-> analysisResults,
     mainSimulation |-> mainSimulation,
     parameters |-> p]

\* the loop over opts.methods and the compilation of the report; reading
\* this.analysisMethods[method] throws while analysisMethods is undefined
RunMethods ==
    /\ pc = "methods"
    /\ IF call.methods # {} /\ ~initialized
       THEN /\ ret' = Thrown("TypeError")
            /\ UNCHANGED results
       ELSE \E numeric \in [call.methods -> BOOLEAN] :
                LET analysisResults ==
                        [m \in call.methods |->
                            [isStable |-> MethodVerdict(m, numeric[m], mainSim,
                                                        pertSim, call)]]
                    report == CompileResults(analysisResults, mainSim,
                                             call.params)
                IN  /\ results' = report
                    /\ ret' = Returned(report)
    /\ pc' = "done"
    /\ UNCHANGED <<op, call, initialized, rng, heap, noise, run, mainSim,
                   pertSim, ghost>>

-----------------------------------------------------------------------------
(* MFSUSolver.solve *)

\* solve up to its loop: initial field, then the noise
CallSolve ==
    /\ pc = "idle"
    /\ call.entry = "solve"
    /\ \E ic \in {GenerateInitialCondition(FreshGenerator(rng), call.nx)} :
       \E hurstNoise \in {SolverHurstNoise(ic.gen, call.nx, call.nt,
                                           call.params.hurst)} :
       \E rows \in {NewArrays(<<ic.psi>>, hurstNoise.rows)} :
           /\ heap' = rows.heap
           /\ noise' = rows.addrs
           /\ rng' = hurstNoise.gen.rng
           /\ ghost' = Started(ghost, "solve", rows.heap, 1, rows.addrs)
    /\ run' = LoopStart("solve", 1)
    /\ pc' = "solveLoop"
    /\ UNCHANGED <<op, call, initialized, mainSim, pertSim, results, ret>>

SolveStep ==
    /\ pc = "solveLoop"
    /\ run.t < call.nt
    /\ \E it \in {SolveIteration(run, heap, call.params, InvDx2(call.nx),
                                heap[noise[run.t + 1]],
                                SaveInterval(call.saveInterval))} :
           /\ heap' = it.heap
           /\ run' = it.run
           /\ ghost' = Stepped(ghost, run, it.heap, it.run)
    /\ UNCHANGED <<op, call, pc, initialized, rng, noise, mainSim, pertSim,
                   results, ret>>

SolveReturn ==
    /\ pc = "solveLoop"
    /\ run.t >= call.nt
    /\ ret' = Returned([finalPsi |-> run.psi, evolution |-> run.evolution,
                        diagnostics |-> [maxAmplitude |-> run.maxAmplitude],
                        parameters |-> call.params,
                        metadata |-> [nx |-> call.nx, nt |-> call.nt,
                                      dt |-> call.params.dt]])
    /\ ghost' = Finished(ghost, run)
    /\ pc' = "done"
    /\ UNCHANGED <<op, call, initialized, rng, heap, noise, run, mainSim,
                   pertSim, results>>

-----------------------------------------------------------------------------
(* SpecRun: whole simulation runs, analyzeStability with its default        *)
(* methods and solve.  SpecAnalyze: analyzeStability with every selection  *)
(* of methods over short and long runs.                                     *)

RunInit ==
    \E x \in Seeds, p \in ParamSets, nx \in GridSizes, nt \in 0..MaxNt :
        \/ \E saveEvolution \in BOOLEAN, amplitude \in Amplitudes :
               Fresh(AnalyzeCall(p, nx, nt, saveEvolution, amplitude, Methods),
                     x)
        \/ \E saveInterval \in SaveIntervals :
               Fresh(SolveCall(p, nx, nt, saveInterval), x)

AnalyzeNext ==
    \/ Initialize
    \/ CallAnalyzeStability
    \/ MainStep
    \/ MainReturn
    \/ PertStart
    \/ PertStep
    \/ PertReturn
    \/ RunMethods

RunNext ==
    \/ AnalyzeNext
    \/ CallSolve
    \/ SolveStep
    \/ SolveReturn

SpecRun == RunInit /\ [][RunNext]_vars

AnalyzeInit ==
    \E x \in Seeds, p \in ParamSets, nx \in GridSizes, nt \in {0, 1, MaxNt},
       saveEvolution \in BOOLEAN, methods \in SUBSET Methods :
        Fresh(AnalyzeCall(p, nx, nt, saveEvolution, DefaultAmplitude, methods),
              x)

SpecAnalyze == AnalyzeInit /\ [][AnalyzeNext]_vars


-----------------------------------------------------------------------------
(* Claims about simulation runs, checked under SpecRun and SpecAnalyze *)

\* a field past the blow-up threshold or holding a non-finite value
Diverged(psi) ==
    \E i \in 1..Len(psi) :
        ~IsFinite(psi[i]) \/ AbsInt(psi[i]) > BlowUpThreshold

\* the simulations that have returned, with the result each returned
Results ==
    [sim \in {x \in Sims : ghost[x].steps >= 0} |->
        CASE sim = "main" -> mainSim
          [] sim = "perturbed" -> pertSim
          [] sim = "solve" -> ret.value]

\* whether the simulation records checkpoints at all
Recording(sim) == sim = "main" => call.saveEvolution

\* the sampling interval of the simulation
Sampling(sim) ==
    IF sim = "solve" THEN SaveInterval(call.saveInterval) ELSE SaveEvery

Ceil(n, s) == (n + s - 1) \div s

\* the evolution trace with every checkpoint's field read from storage
TraceOf(evolution) ==
    [k \in 1..Len(evolution) |->
        [time |-> evolution[k].time, addr |-> evolution[k].psi,
         psi |-> heap[evolution[k].psi]]]

\* the checkpoints as they were when appended
FrozenOf(sim) ==
    [k \in 1..Len(ghost[sim].frozen) |->
        [time |-> ghost[sim].frozen[k].time, addr |-> ghost[sim].frozen[k].addr,
         psi |-> ghost[sim].frozen[k].psi]]

\* the evolution trace of a simulation, running or returned
EvolutionOf(sim) ==
    IF sim \in DOMAIN Results THEN Results[sim].evolution
    ELSE IF ~IsNull(run) /\ run.sim = sim THEN run.evolution
    ELSE <<>>

\* C5 (as stated): in every run, once a step has produced a field past 1e6
\* or with a non-finite value, no further step is executed, so only the
\* last field produced in a run can be diverged
C5_NoStepAfterDivergence ==
    \A sim \in Sims :
        \A k \in 1..(Len(ghost[sim].produced) - 1) :
            ~Diverged(ghost[sim].produced[k].psi)

\* C6 (as stated): a returned result of a run that executed fewer than nt
\* steps carries truncated = true and the step at which it stopped
C6_PartialMarked ==
    \A sim \in DOMAIN Results :
        ghost[sim].steps < call.nt =>
            /\ "truncated" \in DOMAIN Results[sim]
            /\ Results[sim].truncated = TRUE
            /\ "truncationStep" \in DOMAIN Results[sim]

\* C7 (as stated): a run that executed all its steps has ceil(nt / s)
\* checkpoints, taken at the loop indices 0, s, 2s, ..., with strictly
\* increasing time labels, and its trace is the sequence of checkpoints as
\* they were appended
C7_CheckpointsEveryInterval ==
    /\ \A sim \in DOMAIN Results :
           ghost[sim].steps = call.nt =>
               LET evolution == Results[sim].evolution
               IN  /\ Len(evolution) = Ceil(call.nt, Sampling(sim))
                   /\ Len(ghost[sim].frozen) = Len(evolution)
                   /\ \A k \in 1..Len(evolution) :
                          ghost[sim].frozen[k].index = (k - 1) * Sampling(sim)
                   /\ \A k \in 1..(Len(evolution) - 1) :
                          Lt(evolution[k].time, evolution[k + 1].time)
    /\ \A sim \in Sims : TraceOf(EvolutionOf(sim)) = FrozenOf(sim)

\* C7 (amended): a run that executed all its steps and records its trace
\* has ceil(nt / s) checkpoints, taken at the loop indices 0, s, 2s, ...,
\* each labelled index * dt, the labels strictly increasing when dt is
\* finite and positive; a main simulation with saveEvolution off has an
\* empty trace; and every trace is the sequence of checkpoints as they were
\* appended
C7_CheckpointTrace ==
    /\ \A sim \in DOMAIN Results :
           ghost[sim].steps = call.nt =>
               LET evolution == Results[sim].evolution
                   dt == call.params.dt
               IN  IF Recording(sim)
                   THEN /\ Len(evolution) = Ceil(call.nt, Sampling(sim))
                        /\ Len(ghost[sim].frozen) = Len(evolution)
                        /\ \A k \in 1..Len(evolution) :
                               /\ ghost[sim].frozen[k].index =
                                      (k - 1) * Sampling(sim)
                               /\ evolution[k].time =
                                      Mul((k - 1) * Sampling(sim), dt)
                        /\ IsFinite(dt) /\ dt > 0 =>
                               \A k \in 1..(Len(evolution) - 1) :
                                   Lt(evolution[k].time, evolution[k + 1].time)
                   ELSE evolution = <<>>
    /\ \A sim \in Sims : TraceOf(EvolutionOf(sim)) = FrozenOf(sim)

\* a complete recorded run with several checkpoints has returned
C7_Witness ==
    \E sim \in DOMAIN Results :
        /\ ghost[sim].steps = call.nt
        /\ Recording(sim)
        /\ Len(Results[sim].evolution) >= 2
        /\ call.params.dt > 0
        /\ IsFinite(call.params.dt)


\* the arrays a simulation works on: its initial field and the fields its
\* steps produced, the last of which is the live buffer
WorkingFields(sim) == ghost[sim].init \o ghost[sim].produced

\* addresses of all checkpoint fields of all simulations, one per checkpoint
CheckpointAddrs ==
    LET all == TraceOf(EvolutionOf("main")) \o TraceOf(EvolutionOf("perturbed"))
                   \o TraceOf(EvolutionOf("solve"))
    IN  [k \in 1..Len(all) |-> all[k].addr]

Distinct(addrs) ==
    \A j, k \in 1..Len(addrs) : j # k => addrs[j] # addrs[k]

\* C8: every field a step read (the initial field, each produced field) and
\* every noise row still holds what it held when it was created, each step
\* returned a new array of the same length, and every checkpoint's field is
\* an array of its own, apart from the working fields and from the other
\* checkpoints, holding what it held when it was appended
C8_NoSharedStorage ==
    /\ \A sim \in Sims :
           LET fields == WorkingFields(sim)
           IN  /\ \A k \in 1..Len(fields) :
                      /\ heap[fields[k].addr] = fields[k].psi
                      /\ Len(fields[k].psi) = call.nx
               /\ Distinct([k \in 1..Len(fields) |-> fields[k].addr])
               /\ \A t \in 1..Len(ghost[sim].noise) :
                      /\ heap[ghost[sim].noise[t].addr] = ghost[sim].noise[t].psi
                      /\ \A k \in 1..Len(fields) :
                             fields[k].addr # ghost[sim].noise[t].addr
               /\ TraceOf(EvolutionOf(sim)) = FrozenOf(sim)
               /\ \A k \in 1..Len(fields), c \in 1..Len(CheckpointAddrs) :
                      fields[k].addr # CheckpointAddrs[c]
    /\ Distinct(CheckpointAddrs)
    /\ ~IsNull(run) => run.psi = WorkingFields(run.sim)[
                                     Len(WorkingFields(run.sim))].addr

\* steps have run after a checkpoint was appended, in a second simulation
\* holding checkpoints of its own
C8_Witness ==
    /\ ~IsNull(run)
    /\ run.sim = "perturbed"
    /\ Len(run.evolution) >= 1
    /\ Len(ghost["perturbed"].produced) >= 3
    /\ Len(EvolutionOf("main")) >= 1

\* C9 (as stated): the report of analyzeStability has isStable true exactly
\* when every selected method reported stable, and a confidence that is a
\* number in [0, 1], the stable methods over the selected methods
C9_Aggregate ==
    (pc = "done" /\ call.entry = "analyzeStability" /\ ret.kind = "return") =>
        LET report == ret.value
            stable == {m \in call.methods : report.analysisResults[m].isStable}
        IN  /\ DOMAIN report.analysisResults = call.methods
            /\ report.isStable <=> stable = call.methods
            /\ ~report.confidence.nan
            /\ report.confidence.den > 0
            /\ report.confidence.num = Cardinality(stable)
            /\ report.confidence.den = Cardinality(call.methods)
            /\ report.confidence.num <= report.confidence.den

\* C10 (as stated): the initial field of the perturbed simulation differs
\* from the initial field of the main simulation, component by component,
\* by at most perturbationAmplitude
C10_PerturbedInitialField ==
    ghost["perturbed"].init # <<>> =>
        LET primary == ghost["main"].init[1].psi
            perturbed == ghost["perturbed"].init[1].psi
        IN  /\ Len(perturbed) = Len(primary)
            /\ \A i \in 1..Len(primary) :
                   AbsInt(perturbed[i] - primary[i])
                       <= call.perturbationAmplitude

-----------------------------------------------------------------------------
(* Convergence analysis: MFSUSolver.analyzeConvergence, and the identical   *)
(* MFSUConvergenceAnalysis.analyzeConvergence and                           *)
(* MathUtils.analyzeConvergence.  Each runs the solver for 1000 steps on    *)
(* every mesh size; the final field of such a run is drawn from a bounded   *)
(* family of fields of the mesh's length.                                   *)

MaxLevel == 1

\* meshSizes = [16, 32, 64, 128]
DefaultMeshSizes == <<16, 32, 64, 128>>

\* result.finalPsi of a run on nx points: a flat field, an alternating one,
\* or a field that has become NaN
FinalFields(nx) ==
    {[i \in 1..nx |-> 10 * c] : c \in 0..MaxLevel}
        \cup {[i \in 1..nx |-> 10 * MaxLevel * (i % 2)],
              [i \in 1..nx |-> NaN]}

\* Math.sqrt
MathSqrt(v) ==
    IF IsNaN(v) THEN NaN
    ELSE IF v = PosInf THEN PosInf
    ELSE IF v < 0 THEN NaN
    ELSE ISqrt(v)

\* Math.log2 of a power of two
MathLog2(n) == CHOOSE k \in 0..30 : 2 ^ k = n

RECURSIVE SumSquares(_, _, _, _)
\* the sum of (a[i] - b[i]) ^ 2 over the entries lo..hi, in halves
SumSquares(a, b, lo, hi) ==
    IF lo > hi THEN 0
    ELSE IF lo = hi THEN Mul(Sub(a[lo], b[lo]), Sub(a[lo], b[lo]))
    ELSE LET mid == (lo + hi) \div 2
         IN  Add(SumSquares(a, b, lo, mid), SumSquares(a, b, mid + 1, hi))

\* error += Math.pow(a[i] - b[i], 2) over the first n entries
SumSquaredDifferences(a, b, n) == SumSquares(a, b, 1, n)

\* the value of the fine field at the coarse index i: fine[fineIndex] when
\* fineIndex = i * nFine / nCoarse is an integer, else the linear
\* interpolation between its floor and its ceiling
InterpolatedValue(fine, i, nCoarse) ==
    LET lowerIndex == (i * Len(fine)) \div nCoarse
        rest == (i * Len(fine)) % nCoarse
    IN  IF rest = 0 THEN At(fine, lowerIndex)
        ELSE Scaled(Add(Mul(nCoarse - rest, At(fine, lowerIndex)),
                        Mul(rest, At(fine, lowerIndex + 1))), nCoarse)

\* MFSUSolver.calculateL2Error(coarse, fine)
CalculateL2Error(coarse, fine) ==
    LET nCoarse == Len(coarse)
        sampled == IF nCoarse = Len(fine) THEN fine
                   ELSE [i \in 1..nCoarse |->
                            InterpolatedValue(fine, i - 1, nCoarse)]
    IN  MathSqrt(Scaled(SumSquaredDifferences(coarse, sampled, nCoarse),
                        nCoarse))

\* the error loop of the two inlined analyses:
\* fineGrid[Math.floor(j * fineGrid.length / coarseGrid.length)]
NearestIndexError(coarseGrid, fineGrid) ==
    LET n == Len(coarseGrid)
        sampled == [j \in 1..n |->
                       At(fineGrid, ((j - 1) * Len(fineGrid)) \div n)]
    IN  MathSqrt(Scaled(SumSquaredDifferences(coarseGrid, sampled, n), n))

\* a JavaScript number known exactly
Number(v) == [kind |-> "number", value |-> v]

\* Math.log(e1 / e2) / Math.log(h1 / h2) with h = 1.0 / meshSize, kept as
\* the expression it is
LogRatio(e1, e2, m1, m2) ==
    [kind |-> "logRatio", e1 |-> e1, e2 |-> e2, m1 |-> m1, m2 |-> m2]

\* MFSUSolver.calculateConvergenceOrder(convergenceData)
CalculateConvergenceOrder(convergenceData) ==
    LET n == Len(convergenceData)
    IN  IF n < 2 THEN Number(0)
        ELSE LET first == convergenceData[n - 1]
                 second == convergenceData[n]
             IN  IF first.error = 0 \/ second.error = 0 THEN Number(0)
                 ELSE LogRatio(first.error, second.error,
                               first.meshSize, second.meshSize)

\* the second loop of MFSUSolver.analyzeConvergence: one record per
\* solution but the last, each against the last
SolverConvergenceData(meshSizes, solutions) ==
    [i \in 1..(IF solutions = <<>> THEN 0 ELSE Len(solutions) - 1) |->
        [meshSize |-> meshSizes[i],
         error |-> CalculateL2Error(solutions[i], solutions[Len(solutions)]),
         order |-> MathLog2(meshSizes[i]),
         solution |-> i]]

Analyses == {"MFSUSolver", "MFSUConvergenceAnalysis", "MathUtils"}

\* the mesh sizes a caller passes to MFSUSolver.analyzeConvergence
MeshLists ==
    {SubSeq(DefaultMeshSizes, 1, k) : k \in 0..Len(DefaultMeshSizes)}
        \cup {<<32, 16>>}

ConvergenceCall(impl, meshSizes) ==
    [entry |-> "analyzeConvergence", impl |-> impl, meshSizes |-> meshSizes]

\* what the analysis has compared so far: the final field of every run, and
\* for every record the runs whose fields went into its error
NoComparisons == [finals |-> <<>>, compared |-> <<>>]

ConvergenceFresh(c) ==
    /\ op = Null
    /\ call = c
    /\ pc = "idle"
    /\ initialized = FALSE
    /\ rng = 0
    /\ heap = <<>>
    /\ noise = <<>>
    /\ run = Null
    /\ mainSim = Null
    /\ pertSim = Null
    /\ results = Null
    /\ ret = Null
    /\ ghost = NoComparisons

\* analyzeConvergence up to its first loop
CallAnalyzeConvergence ==
    /\ pc = "idle"
    /\ call.entry = "analyzeConvergence"
    /\ run' = [i |-> 0, solutions |-> <<>>, convergenceData |-> <<>>,
               referenceSolution |-> Null]
    /\ pc' = "meshLoop"
    /\ UNCHANGED <<op, call, initialized, rng, heap, noise, mainSim, pertSim,
                   results, ret, ghost>>

\* MFSUSolver.analyzeConvergence, one iteration of the first loop
SolverMeshRun ==
    /\ pc = "meshLoop"
    /\ call.impl = "MFSUSolver"
    /\ run.i < Len(call.meshSizes)
    /\ \E finalPsi \in FinalFields(call.meshSizes[run.i + 1]) :
          /\ run' = [run EXCEPT !.i = @ + 1,
                                !.solutions = Append(@, finalPsi)]
          /\ ghost' = [ghost EXCEPT !.finals = Append(@, finalPsi)]
    /\ UNCHANGED <<op, call, pc, initialized, rng, heap, noise, mainSim,
                   pertSim, results, ret>>

\* MFSUSolver.analyzeConvergence from the end of the first loop to the
\* return
SolverConvergenceReturn ==
    /\ pc = "meshLoop"
    /\ call.impl = "MFSUSolver"
    /\ run.i >= Len(call.meshSizes)
    /\ \E data \in {SolverConvergenceData(call.meshSizes, run.solutions)} :
          /\ run' = [run EXCEPT !.convergenceData = data]
          /\ ret' = Returned(
                 [data |-> data,
                  order |-> CalculateConvergenceOrder(data),
                  referenceSolution |->
                      IF run.solutions = <<>> THEN Null
                      ELSE [finalPsi |-> run.solutions[Len(run.solutions)]]])
          /\ ghost' = [ghost EXCEPT
                 !.compared = [i \in 1..Len(data) |->
                                  [coarse |-> i,
                                   fine |-> Len(run.solutions)]]]
    /\ pc' = "done"
    /\ UNCHANGED <<op, call, initialized, rng, heap, noise, mainSim, pertSim,
                   results>>

\* one iteration of the loop of the inlined analyses: the run, the
\* reference taken on the last mesh, the record pushed for i > 0 with
\* fineGrid = referenceSolution || result.finalPsi
InlinedMeshRun(impl) ==
    /\ pc = "meshLoop"
    /\ call.impl = impl
    /\ run.i < Len(call.meshSizes)
    /\ \E finalPsi \in FinalFields(call.meshSizes[run.i + 1]) :
       \E result \in {[finalPsi |-> finalPsi, from |-> run.i + 1]} :
       \E referenceSolution \in
              {IF run.i = Len(call.meshSizes) - 1 THEN result
               ELSE run.referenceSolution} :
       \E fineGrid \in {IF IsNull(referenceSolution) THEN result
                        ELSE referenceSolution} :
          /\ run' = [run EXCEPT
                 !.i = @ + 1,
                 !.referenceSolution = referenceSolution,
                 !.convergenceData =
                     IF run.i > 0
                     THEN Append(@,
                              [meshSize |-> call.meshSizes[run.i + 1],
                               error |-> NearestIndexError(finalPsi,
                                                           fineGrid.finalPsi),
                               order |->
                                   MathLog2(call.meshSizes[run.i + 1])])
                     ELSE @]
          /\ ghost' = [ghost EXCEPT
                 !.finals = Append(@, finalPsi),
                 !.compared =
                     IF run.i > 0
                     THEN Append(@, [coarse |-> result.from,
                                     fine |-> fineGrid.from])
                     ELSE @]
    /\ UNCHANGED <<op, call, pc, initialized, rng, heap, noise, mainSim,
                   pertSim, results, ret>>

\* the inlined analyses return convergenceData
InlinedReturn(impl) ==
    /\ pc = "meshLoop"
    /\ call.impl = impl
    /\ run.i >= Len(call.meshSizes)
    /\ ret' = Returned(run.convergenceData)
    /\ pc' = "done"
    /\ UNCHANGED <<op, call, initialized, rng, heap, noise, run, mainSim,
                   pertSim, results, ghost>>

ConvergenceMeshRun == InlinedMeshRun("MFSUConvergenceAnalysis")

ConvergenceReturn == InlinedReturn("MFSUConvergenceAnalysis")

MathUtilsMeshRun == InlinedMeshRun("MathUtils")

MathUtilsReturn == InlinedReturn("MathUtils")

ConvergenceInit ==
    \/ \E meshSizes \in MeshLists :
           ConvergenceFresh(ConvergenceCall("MFSUSolver", meshSizes))
    \/ \E impl \in Analyses \ {"MFSUSolver"} :
           ConvergenceFresh(ConvergenceCall(impl, DefaultMeshSizes))

ConvergenceNext ==
    \/ CallAnalyzeConvergence
    \/ SolverMeshRun
    \/ SolverConvergenceReturn
    \/ ConvergenceMeshRun
    \/ ConvergenceReturn
    \/ MathUtilsMeshRun
    \/ MathUtilsReturn

SpecConvergence == ConvergenceInit /\ [][ConvergenceNext]_vars

-----------------------------------------------------------------------------
(* Claims about convergence analysis, checked under SpecConvergence *)

ConvergenceReturned ==
    /\ call.entry = "analyzeConvergence"
    /\ pc = "done"

\* the records the analysis returned
ConvergenceRecords ==
    IF call.impl = "MFSUSolver" THEN ret.value.data ELSE ret.value

\* the L2 distance between a coarse field and a fine one sampled at the
\* nearest lower index
L2Distance(coarse, fine) ==
    MathSqrt(Scaled(
        SumSquaredDifferences(
            coarse,
            [j \in 1..Len(coarse) |->
                fine[((j - 1) * Len(fine)) \div Len(coarse) + 1]],
            Len(coarse)),
        Len(coarse)))

\* the position of a mesh size in the list of the call
MeshIndex(n) == CHOOSE i \in 1..Len(call.meshSizes) : call.meshSizes[i] = n

\* mesh sizes listed from the coarsest to the finest
Increasing(meshSizes) ==
    \A i \in 1..(Len(meshSizes) - 1) : meshSizes[i] < meshSizes[i + 1]

\* C11 (as stated): the error recorded for mesh size n_i is the L2 distance
\* between the final field of the run on n_i and the final field of the run
\* on the finest (last) mesh, and no error comes from comparing a field
\* with itself
C11_ErrorAgainstFinest ==
    ConvergenceReturned /\ Increasing(call.meshSizes) =>
        \A r \in 1..Len(ConvergenceRecords) :
            LET record == ConvergenceRecords[r]
                finest == Len(call.meshSizes)
            IN  /\ ghost.compared[r].coarse = MeshIndex(record.meshSize)
                /\ ghost.compared[r].fine = finest
                /\ ghost.compared[r].coarse # ghost.compared[r].fine
                /\ record.error =
                       L2Distance(ghost.finals[MeshIndex(record.meshSize)],
                                  ghost.finals[finest])

\* order = log2(coarse / fine) for two positive finite errors
IsLog2Ratio(order, coarse, fine) ==
    /\ IsFinite(coarse) /\ coarse > 0
    /\ IsFinite(fine) /\ fine > 0
    /\ order >= 0
    /\ coarse = (2 ^ order) * fine

\* C12 (as stated): on k >= 2 increasing mesh sizes analyzeConvergence
\* returns k - 1 records in the order of increasing meshSize, and the order
\* value of each record is the empirical order log2(error_coarse /
\* error_fine) between its resolution and an adjacent one
C12_EmpiricalOrder ==
    (/\ ConvergenceReturned
     /\ Increasing(call.meshSizes)
     /\ Len(call.meshSizes) >= 2) =>
        LET data == ConvergenceRecords
        IN  /\ Len(data) = Len(call.meshSizes) - 1
            /\ \A r \in 1..(Len(data) - 1) :
                   data[r].meshSize < data[r + 1].meshSize
            /\ \A r \in 1..Len(data) :
                   Len(data) >= 2 =>
                       \E s \in {r - 1, r + 1} \cap (1..Len(data)) :
                           LET coarser == IF s < r THEN s ELSE r
                           IN  IsLog2Ratio(data[r].order,
                                           data[coarser].error,
                                           data[coarser + 1].error)

\* C13 (as stated): analyzeConvergence called with fewer than 2 mesh sizes
\* reports InsufficientData and returns no result with an order value
C13_InsufficientData ==
    (/\ ConvergenceReturned
     /\ Len(call.meshSizes) < 2) =>
        /\ ret.kind = "throw"
        /\ ret.error = "InsufficientData"

-----------------------------------------------------------------------------
(* Claims about parameters, checked under SpecRun *)

\* a parameter record with a field that is not a finite number, or with a
\* time step that is not positive
InvalidParameters(p) ==
    \/ \E f \in {"alpha", "beta", "gamma", "fractalDim", "dt"} :
           ~IsFinite(p[f])
    \/ p.dt <= 0

\* C14 (as stated): analyzeStability and solve called with a parameter
\* that is non-finite or out of bounds (dt <= 0, alpha = NaN) generate no
\* noise and execute no time step, and signal InvalidParameter
C14_RejectInvalidParameters ==
    InvalidParameters(call.params) =>
        /\ \A sim \in Sims :
               /\ ghost[sim].noise = <<>>
               /\ ghost[sim].produced = <<>>
        /\ pc # "idle" => ret = Thrown("InvalidParameter")

-----------------------------------------------------------------------------
(* Config.validateParameters.  A parameter record is a function from the    *)
(* keys it holds to numbers, each bounded parameter counted in units of     *)
(* its own step (alpha in 0.01, beta, gamma and fractalDim in 0.001, dt in  *)
(* 0.0001, hurstExponent in 0.01, nx and nt in 1).                          *)

\* PARAMETER_BOUNDS
ParameterBounds ==
    [alpha |-> [min |-> 1, max |-> 500],
     beta |-> [min |-> 1, max |-> 1000],
     gamma |-> [min |-> 1, max |-> 1000],
     fractalDim |-> [min |-> 100, max |-> 2000],
     dt |-> [min |-> 1, max |-> 1000],
     nx |-> [min |-> 16, max |-> 512],
     nt |-> [min |-> 100, max |-> 10000],
     hurstExponent |-> [min |-> 10, max |-> 90]]

\* the keys in the order Object.entries lists them
ParameterKeys ==
    <<"alpha", "beta", "gamma", "fractalDim", "dt", "nx", "nt",
      "hurstExponent">>

\* if (value) for a number
Truthy(v) == ~IsNaN(v) /\ v # 0

\* value < min || value > max
OutOfBounds(key, value) ==
    \/ Lt(value, ParameterBounds[key].min)
    \/ Gt(value, ParameterBounds[key].max)

\* the keys the first loop pushes an error for, in order
BoundErrors(params) ==
    SelectSeq(ParameterKeys,
              LAMBDA key : key \in DOMAIN params
                           /\ OutOfBounds(key, params[key]))

\* the error of the separate fractalDim test
FractalDimErrors(params) ==
    IF /\ "fractalDim" \in DOMAIN params
       /\ Truthy(params.fractalDim)
       /\ \/ Lt(params.fractalDim, 100)
          \/ Gt(params.fractalDim, 2000)
    THEN <<"fractalDimPhysical">>
    ELSE <<>>

\* Config.validateParameters(params): isValid and the errors (the warnings
\* do not enter isValid)
ValidateParameters(params) ==
    LET errors == BoundErrors(params) \o FractalDimErrors(params)
    IN  [isValid |-> Len(errors) = 0, errors |-> errors]

\* an object waiting for the call c, the ambient random stream in state x
AwaitingWith(c, x) ==
    /\ op = Null
    /\ call = c
    /\ pc = "idle"
    /\ initialized = FALSE
    /\ rng = x
    /\ heap = <<>>
    /\ noise = <<>>
    /\ run = Null
    /\ mainSim = Null
    /\ pertSim = Null
    /\ results = Null
    /\ ret = Null
    /\ ghost = Null

\* an object waiting for a call that draws no random number
Awaiting(c) == AwaitingWith(c, 0)

\* the values tried for a bounded parameter: around each bound, and the
\* non-finite numbers
Candidates(key) ==
    {ParameterBounds[key].min - 1, ParameterBounds[key].min,
     ParameterBounds[key].max, ParameterBounds[key].max + 1,
     NaN, PosInf, NegInf}

KeySet == {ParameterKeys[i] : i \in 1..Len(ParameterKeys)}

\* records holding at most two of the bounded parameters
SparseRecords ==
    UNION {{p \in [keys -> UNION {Candidates(key) : key \in KeySet}] :
                \A key \in keys : p[key] \in Candidates(key)} :
           keys \in {s \in SUBSET KeySet : Cardinality(s) <= 2}}

\* complete records at one end of every range, with one parameter replaced
CompleteRecords ==
    {[base EXCEPT ![key] = v] :
        base \in {[key \in KeySet |-> ParameterBounds[key].min],
                  [key \in KeySet |-> ParameterBounds[key].max]},
        key \in KeySet, v \in UNION {Candidates(k) : k \in KeySet}}

ValidateCall(params) == [entry |-> "validateParameters", params |-> params]

\* Config.validateParameters(params)
CallValidateParameters ==
    /\ pc = "idle"
    /\ call.entry = "validateParameters"
    /\ ret' = Returned(ValidateParameters(call.params))
    /\ pc' = "done"
    /\ UNCHANGED <<op, call, initialized, rng, heap, noise, run, mainSim,
                   pertSim, results, ghost>>

ValidateInit ==
    \E params \in SparseRecords \cup CompleteRecords :
        Awaiting(ValidateCall(params))

ValidateNext == CallValidateParameters

SpecValidate == ValidateInit /\ [][ValidateNext]_vars

\* every bounded parameter the record holds is finite and within its range
AllWithinBounds(params) ==
    \A key \in DOMAIN params \cap KeySet :
        /\ IsFinite(params[key])
        /\ params[key] >= ParameterBounds[key].min
        /\ params[key] <= ParameterBounds[key].max

\* C15 (as stated): validateParameters returns isValid = false for every
\* record in which some bounded parameter is non-finite or outside
\* [min, max], and isValid = true only when every bounded parameter
\* present is finite and within its bounds
C15_ValidationVerdict ==
    (call.entry = "validateParameters" /\ pc = "done") =>
        (ret.value.isValid <=> AllWithinBounds(call.params))

-----------------------------------------------------------------------------
(* Claims about noise generation, checked under SpecRun and SpecNoise *)

\* the rows a simulation's noise was generated with
NoiseOf(sim) ==
    [t \in 1..Len(ghost[sim].noise) |-> ghost[sim].noise[t].psi]

\* C16 (as stated): the noise is a function of the seed and of (nx, nt,
\* hurst) alone and does not depend on ambient randomness: the two
\* generateHurstNoise(nx, nt, hurst) calls of one analysis return the same
\* rows
C16_NoiseDeterministic ==
    (ghost["main"].noise # <<>> /\ ghost["perturbed"].noise # <<>>) =>
        NoiseOf("main") = NoiseOf("perturbed")

-----------------------------------------------------------------------------
(* generateHurstNoise called on its own, for both generators *)

MaxRows == 2

\* hurst counted in halves: 0, 0.5 and 1
HurstValues == 0..2

NoiseCall(impl, nx, nt, hurst2) ==
    [entry |-> "generateHurstNoise", impl |-> impl, nx |-> nx, nt |-> nt,
     hurst |-> hurst2]

\* spatialNoise of every row of StabilityAnalysis.generateHurstNoise
StabilityWhiteNoise(x, nx, nt) ==
    [t \in 1..nt |->
        [i \in 1..nx |-> RandomCentered(StateAfter(x, (t - 1) * nx + i - 1))]]

\* spatialNoise of every row of MFSUSolver.generateHurstNoise
SolverWhiteNoise(g, nx, nt) ==
    LET d == GaussianDraws(g, nx * nt)
    IN  [t \in 1..nt |-> [i \in 1..nx |-> d.values[(t - 1) * nx + i]]]

\* what a call of generateHurstNoise leaves behind besides its result: the
\* white noise it drew, and what it wrote to the console
NoiseTrace(white) == [white |-> white, console |-> <<>>]

\* StabilityAnalysis.generateHurstNoise(nx, nt, hurst)
CallStabilityHurstNoise ==
    /\ pc = "idle"
    /\ call.entry = "generateHurstNoise"
    /\ call.impl = "StabilityAnalysis"
    /\ ret' = Returned(GenerateHurstNoise(rng, call.nx, call.nt, call.hurst))
    /\ rng' = StateAfter(rng, call.nx * call.nt)
    /\ ghost' = NoiseTrace(StabilityWhiteNoise(rng, call.nx, call.nt))
    /\ pc' = "done"
    /\ UNCHANGED <<op, call, initialized, heap, noise, run, mainSim, pertSim,
                   results>>

\* MFSUSolver.generateHurstNoise(nx, nt, hurst) on a new solver
CallSolverHurstNoise ==
    /\ pc = "idle"
    /\ call.entry = "generateHurstNoise"
    /\ call.impl = "MFSUSolver"
    /\ \E generated \in {SolverHurstNoise(FreshGenerator(rng), call.nx,
                                          call.nt, call.hurst)} :
          /\ ret' = Returned(generated.rows)
          /\ rng' = generated.gen.rng
          /\ run' = [hasSpareGaussian |-> generated.gen.hasSpare,
                     spareGaussian |-> generated.gen.spare]
    /\ ghost' = NoiseTrace(SolverWhiteNoise(FreshGenerator(rng), call.nx,
                                            call.nt))
    /\ pc' = "done"
    /\ UNCHANGED <<op, call, initialized, heap, noise, mainSim, pertSim,
                   results>>

NoiseInit ==
    \E x \in 0..15, impl \in {"StabilityAnalysis", "MFSUSolver"},
       nx \in 1..MaxNx, nt \in 0..MaxRows, hurst2 \in HurstValues :
        AwaitingWith(NoiseCall(impl, nx, nt, hurst2), x)

NoiseNext ==
    \/ CallStabilityHurstNoise
    \/ CallSolverHurstNoise

SpecNoise == NoiseInit /\ [][NoiseNext]_vars

NoiseReturned ==
    /\ call.entry = "generateHurstNoise"
    /\ pc = "done"

\* C17 (as stated): the noise generator accepts only a hurst strictly
\* between 0 and 1; called for at least one row with hurst = 0 or
\* hurst = 1 it fails or clamps the value with a warning, and never
\* returns noise silently
C17_HurstValidated ==
    (NoiseReturned /\ call.hurst \in {0, 2} /\ call.nt >= 1) =>
        \/ ret.kind = "throw"
        \/ ghost.console # <<>>

\* C18: generateHurstNoise(1, nt, hurst) with hurst in (0, 1) returns
\* exactly nt rows of length 1, each holding its white-noise sample
\* unchanged and finite
C18_SinglePoint ==
    (NoiseReturned /\ call.nx = 1 /\ call.hurst = 1) =>
        /\ ret.kind = "return"
        /\ Len(ret.value) = call.nt
        /\ \A t \in 1..call.nt :
               /\ Len(ret.value[t]) = 1
               /\ ret.value[t] = ghost.white[t]
               /\ IsFinite(ret.value[t][1])

C18_Witness ==
    /\ NoiseReturned
    /\ call.nx = 1
    /\ call.hurst = 1
    /\ call.nt = MaxRows
    /\ ret.value[1] # ret.value[2]

-----------------------------------------------------------------------------
(* StabilityAnalysis.exportResults.  The JSON text is kept as the tree of   *)
(* its number tokens; JSON.stringify writes a number that is not finite as  *)
(* null.                                                                    *)

\* stableCount / methods.length as a number, in hundredths
Quotient(q) == IF q.nan THEN NaN ELSE (100 * q.num) \div q.den

\* the numbers this.results holds, arrays read through the heap
NumbersOf(r, h) ==
    [confidence |-> Quotient(r.confidence),
     parameters |-> r.parameters,
     finalPsi |-> h[r.mainSimulation.finalPsi],
     maxAmplitude |-> r.mainSimulation.metrics.maxAmplitude,
     evolution |->
         [k \in 1..Len(r.mainSimulation.evolution) |->
             LET e == r.mainSimulation.evolution[k]
             IN  [time |-> e.time, psi |-> h[e.psi],
                  maxAmplitude |-> e.maxAmplitude]]]

\* a tree of the shape of NumbersOf with F applied to every number
MapNumbers(F(_), tree) ==
    [confidence |-> F(tree.confidence),
     parameters |-> [f \in DOMAIN tree.parameters |-> F(tree.parameters[f])],
     finalPsi |-> [i \in 1..Len(tree.finalPsi) |-> F(tree.finalPsi[i])],
     maxAmplitude |->
         [k \in 1..Len(tree.maxAmplitude) |-> F(tree.maxAmplitude[k])],
     evolution |->
         [k \in 1..Len(tree.evolution) |->
             [time |-> F(tree.evolution[k].time),
              psi |-> [i \in 1..Len(tree.evolution[k].psi) |->
                          F(tree.evolution[k].psi[i])],
              maxAmplitude |-> F(tree.evolution[k].maxAmplitude)]]]

\* a number as a JavaScript value
Boxed(v) == [number |-> v]

\* the token JSON.stringify writes for a value: null for null and for a
\* number that is not finite
ValueToken(v) ==
    IF IsNull(v) THEN [token |-> "null"]
    ELSE IF IsFinite(v.number) THEN [token |-> "number", text |-> v.number]
    ELSE [token |-> "null"]

\* the token for a number
NumberToken(v) == ValueToken(Boxed(v))

\* the value JSON.parse reads from a token
ParseToken(tok) ==
    IF tok.token = "null" THEN Null ELSE Boxed(tok.text)

\* JSON.stringify(this.results, null, 2)
StringifyResults(r, h) == MapNumbers(NumberToken, NumbersOf(r, h))

\* JSON.parse(text)
ParseResults(text) == MapNumbers(ParseToken, text)

\* JSON.stringify of a parsed report
StringifyParsed(parsed) == MapNumbers(ValueToken, parsed)

ExportFormats == {"json", "csv", "object"}

\* exportResults(format) after analyzeStability has returned or thrown
ExportResults ==
    /\ pc = "done"
    /\ call.entry = "analyzeStability"
    /\ \E format \in ExportFormats :
          /\ run' = [format |-> format]
          /\ ret' = IF IsNull(results) THEN Returned(Null)
                    ELSE CASE format = "json" ->
                                  Returned([json |->
                                      StringifyResults(results, heap)])
                           [] format = "csv" ->
                                  Returned([csv |-> "notImplemented"])
                           [] OTHER -> Returned(results)
    /\ pc' = "exported"
    /\ UNCHANGED <<op, call, initialized, rng, heap, noise, mainSim, pertSim,
                   results, ghost>>

ExportInit ==
    \E x \in Seeds, p \in ParamSets, nx \in GridSizes, nt \in {0, 1},
       saveEvolution \in BOOLEAN, methods \in {{}, {"vonNeumann"}, Methods} :
        Fresh(AnalyzeCall(p, nx, nt, saveEvolution, DefaultAmplitude, methods),
              x)

ExportNext ==
    \/ AnalyzeNext
    \/ ExportResults

SpecExport == ExportInit /\ [][ExportNext]_vars

\* exportResults('json') has returned a text
Exported ==
    /\ pc = "exported"
    /\ run.format = "json"
    /\ ~IsNull(results)

\* C19 (as stated): parsing the exported JSON gives back every number of
\* the report, and exporting the parsed report gives the same text
C19_ExportRoundTrip ==
    Exported =>
        /\ ParseResults(ret.value.json)
               = MapNumbers(Boxed, NumbersOf(results, heap))
        /\ StringifyParsed(ParseResults(ret.value.json)) = ret.value.json

-----------------------------------------------------------------------------
(* The MFSUSolver of the test suite: its constructor.  Parameters are       *)
(* counted in thousandths.                                                  *)

\* the defaults of the constructor: 1.0, 0.1, 0.1, 0.921, 0.01, 0.1
ConstructorDefaults ==
    [alpha |-> 1000, beta |-> 100, gamma |-> 100, fractalDim |-> 921,
     dt |-> 10, dx |-> 100]

\* params.key || fallback for a number: the fallback when the key is
\* absent, 0 or NaN
OrDefault(params, key, fallback) ==
    IF key \in DOMAIN params /\ Truthy(params[key]) THEN params[key]
    ELSE fallback

\* new MFSUSolver(params): the fields of the object
Construct(params) ==
    [key \in DOMAIN ConstructorDefaults |->
        OrDefault(params, key, ConstructorDefaults[key])]
        @@ [boundaryType |->
                IF "boundaryType" \in DOMAIN params
                THEN params.boundaryType ELSE "periodic"]

\* the values supplied for a parameter: 0 and 0.5
SuppliedValues == {0, 500}

\* the parameter objects passed to the constructor
ConstructorArguments ==
    UNION {[keys -> SuppliedValues] :
               keys \in SUBSET DOMAIN ConstructorDefaults}

ConstructorCall(params) == [entry |-> "constructor", params |-> params]

\* new MFSUSolver(params)
NewSolver ==
    /\ pc = "idle"
    /\ call.entry = "constructor"
    /\ ret' = Returned(Construct(call.params))
    /\ pc' = "done"
    /\ UNCHANGED <<op, call, initialized, rng, heap, noise, run, mainSim,
                   pertSim, results, ghost>>

ConstructInit ==
    \E numbers \in ConstructorArguments :
        \/ Awaiting(ConstructorCall(numbers))
        \/ Awaiting(ConstructorCall(
               numbers @@ [boundaryType |-> "dirichlet"]))

ConstructNext == NewSolver

SpecConstruct == ConstructInit /\ [][ConstructNext]_vars

\* C20 (as stated): the constructor stores every supplied parameter
\* exactly, the legal value 0 included, and uses a default only for a
\* parameter that is absent
C20_ParametersStored ==
    (call.entry = "constructor" /\ pc = "done") =>
        \A key \in DOMAIN ConstructorDefaults :
            ret.value[key] = IF key \in DOMAIN call.params
                             THEN call.params[key]
                             ELSE ConstructorDefaults[key]

-----------------------------------------------------------------------------
(* One time step on its own, with a time step below 1: dt is counted in    *)
(* units of 1 / TimeScale and the new field in units of 1 / TimeScale of   *)
(* the old one.                                                             *)

TimeScale == 4

\* psi[i] + dt * (diffusion + stochastic + nonlinear + forcing), times
\* TimeScale
FineEulerEntry(v, frac, stochastic, p) ==
    Add(Mul(TimeScale, v),
        Mul(p.dt, Add(Add(Add(Mul(p.alpha, frac), stochastic),
                          Nonlinear(p.gamma, v)), 0)))

\* StabilityAnalysis.evolveTimeStep
StabilityFineStep(psi, p, invDx2, noiseRow) ==
    LET fractalTerm == StabilityFractionalLaplacian(psi, invDx2, p.fractalDim)
    IN  IF fractalTerm.kind = "throw" THEN fractalTerm
        ELSE Returned(
                 [i \in 1..Len(psi) |->
                     FineEulerEntry(psi[i], fractalTerm.value[i],
                                    Half(Mul(Mul(p.beta, At(noiseRow, i - 1)),
                                             psi[i])), p)])

\* the body of the time loop of MFSUSolver.solve, forcingType 'none'
SolverFineStep(psi, p, invDx2, noiseRow) ==
    LET fractalTerm == SolverFractionalLaplacian(psi, invDx2, p.fractalDim)
    IN  Returned(
            [i \in 1..Len(psi) |->
                FineEulerEntry(psi[i], fractalTerm.value[i],
                               Mul(Mul(p.beta, At(noiseRow, i - 1)), psi[i]),
                               p)])

StepCall(impl, psi, p, noiseRow) ==
    [entry |-> "timeStep", impl |-> impl, psi |-> psi, params |-> p,
     noiseRow |-> noiseRow]

\* the fields a step starts from: N in 3..4, values in -1..1
StepFields == UNION {[1..n -> -1..1] : n \in 3..4}

\* alpha = 1 and dx = 1; beta and gamma 0 or 1, order 1 or 2, dt from 0 to
\* 3 / TimeScale
StepParams ==
    {Params(1, beta, gamma, order, dt) :
        beta \in 0..1, gamma \in 0..1, order \in 1..2, dt \in 0..3}

\* evolveTimeStep(psi, params, dx, dt, noise)
StepStability ==
    /\ pc = "idle"
    /\ call.entry = "timeStep"
    /\ call.impl = "StabilityAnalysis"
    /\ ret' = StabilityFineStep(call.psi, call.params, 1, call.noiseRow)
    /\ pc' = "done"
    /\ UNCHANGED <<op, call, initialized, rng, heap, noise, run, mainSim,
                   pertSim, results, ghost>>

\* one iteration of the loop of MFSUSolver.solve
StepSolver ==
    /\ pc = "idle"
    /\ call.entry = "timeStep"
    /\ call.impl = "MFSUSolver"
    /\ ret' = SolverFineStep(call.psi, call.params, 1, call.noiseRow)
    /\ pc' = "done"
    /\ UNCHANGED <<op, call, initialized, rng, heap, noise, run, mainSim,
                   pertSim, results, ghost>>

StepInit ==
    \E impl \in {"StabilityAnalysis", "MFSUSolver"}, psi \in StepFields,
       p \in StepParams, level \in {0, 1} :
        Awaiting(StepCall(impl, psi, p, [i \in 1..Len(psi) |-> level]))

StepNext ==
    \/ StepStability
    \/ StepSolver

SpecStep == StepInit /\ [][StepNext]_vars

-----------------------------------------------------------------------------
(* Claims about a time step of pure diffusion, checked under SpecStep *)

RECURSIVE SumOf(_, _)
\* the sum of the first n entries
SumOf(a, n) == IF n = 0 THEN 0 ELSE Add(SumOf(a, n - 1), a[n])

\* the sum of the squares of the entries
SquaredNorm(a) == SumSquaredDifferences(a, Zeros(Len(a)), Len(a))

\* a step of pure diffusion at order 2
PureDiffusionStep ==
    /\ call.entry = "timeStep"
    /\ pc = "done"
    /\ call.params.beta = 0
    /\ call.params.gamma = 0
    /\ call.params.fractalDim = 2

\* C22 (as stated, its second half): with beta = 0, gamma = 0, order = 2
\* and alpha * dt / dx^2 <= 1/2, a time step produces a field whose L2
\* norm is not above the norm of the field it started from
C22_NormNotIncreasing ==
    (/\ PureDiffusionStep
     /\ 2 * call.params.alpha * call.params.dt <= TimeScale) =>
        /\ ret.kind = "return"
        /\ SquaredNorm(ret.value)
               <= TimeScale * TimeScale * SquaredNorm(call.psi)

\* C29 (as stated): with beta = 0, gamma = 0 and order = 2 a time step on
\* a periodic grid of N >= 3 points produces a field with the sum of the
\* field it started from
C29_SumPreserved ==
    PureDiffusionStep =>
        /\ ret.kind = "return"
        /\ SumOf(ret.value, Len(ret.value))
               = TimeScale * SumOf(call.psi, Len(call.psi))

-----------------------------------------------------------------------------
(* StabilityAnalysis.generateRecommendations.  courantNumber is counted in  *)
(* tenths, averageLyapunov in hundredths and dt in units of 1e-4.           *)

\* (num / den).toFixed(4) in units of 1e-4, den > 0: the nearest multiple
\* of 1e-4, a tie going away from zero
ToFixed4(num, den) ==
    SignInt(num) * ((2 * AbsInt(num) + den) \div (2 * den))

\* (0.5 / courantNumber * params.dt).toFixed(4), courantNumber > 0.5
RecommendedBound(courantNumber, dt) ==
    IF IsInf(courantNumber) THEN 0 ELSE ToFixed4(5 * dt, courantNumber)

\* results.vonNeumann && results.vonNeumann.courantNumber > 0.5
NeedsSmallerStep(analysisResults) ==
    /\ "vonNeumann" \in DOMAIN analysisResults
    /\ Gt(analysisResults.vonNeumann.courantNumber, 5)

\* results.lyapunov && results.lyapunov.averageLyapunov > 0
NeedsNonlinearityWhenPositive(analysisResults) ==
    /\ "lyapunov" \in DOMAIN analysisResults
    /\ Gt(analysisResults.lyapunov.averageLyapunov, 0)

\* results.lyapunov && results.lyapunov.averageLyapunov > 0.1
NeedsNonlinearity(analysisResults) ==
    /\ "lyapunov" \in DOMAIN analysisResults
    /\ Gt(analysisResults.lyapunov.averageLyapunov, 10)

GenerateRecommendations(analysisResults, params) ==
    (IF NeedsSmallerStep(analysisResults)
     THEN << [type |-> "timestep",
              bound |-> RecommendedBound(analysisResults.vonNeumann.courantNumber,
                                         params.dt),
              priority |-> "high"] >>
     ELSE << >>)
    \o
    (IF NeedsNonlinearity(analysisResults)
     THEN << [type |-> "nonlinearity", priority |-> "medium"] >>
     ELSE << >>)

\* the analysis results of the selected methods of a run whose Courant
\* number and mean Lyapunov exponent are given
ResultsOf(methods, courantNumber, averageLyapunov, stable) ==
    [m \in methods |->
        CASE m = "vonNeumann" ->
                 [isStable |-> stable, courantNumber |-> courantNumber]
          [] m = "lyapunov" ->
                 [isStable |-> ~IsNaN(averageLyapunov) /\ averageLyapunov <= 0,
                  averageLyapunov |-> averageLyapunov]
          [] OTHER -> [isStable |-> stable]]

CourantNumbers == {-10, 0, 4, 5, 6, 8, 40, NaN, PosInf}

LyapunovAverages == {-5, 0, 5, 10, 11, 50, NaN}

TimeSteps == {0, 1, 3, 100}

\* analysed holds the Courant number and the mean Lyapunov exponent of the
\* run, whether or not their methods were selected
RecommendCall(analysisResults, dt, analysed) ==
    [entry |-> "generateRecommendations", results |-> analysisResults,
     params |-> [dt |-> dt], analysed |-> analysed]

\* generateRecommendations(results, params)
CallGenerateRecommendations ==
    /\ pc = "idle"
    /\ call.entry = "generateRecommendations"
    /\ ret' = Returned(GenerateRecommendations(call.results, call.params))
    /\ pc' = "done"
    /\ UNCHANGED <<op, call, initialized, rng, heap, noise, run, mainSim,
                   pertSim, results, ghost>>

RecommendInit ==
    \E methods \in SUBSET {"vonNeumann", "lyapunov", "energy"},
       courantNumber \in CourantNumbers,
       averageLyapunov \in LyapunovAverages,
       stable \in BOOLEAN, dt \in TimeSteps :
        Awaiting(RecommendCall(ResultsOf(methods, courantNumber,
                                         averageLyapunov, stable), dt,
                               [courantNumber |-> courantNumber,
                                averageLyapunov |-> averageLyapunov]))

RecommendNext == CallGenerateRecommendations

SpecRecommend == RecommendInit /\ [][RecommendNext]_vars

-----------------------------------------------------------------------------
(* Claims about the recommendations, checked under SpecRecommend *)

Recommended == call.entry = "generateRecommendations" /\ pc = "done"

Recommends(type) == \E i \in DOMAIN ret.value : ret.value[i].type = type

BoundOf(type) ==
    ret.value[CHOOSE i \in DOMAIN ret.value : ret.value[i].type = type].bound

\* C23 (as stated): a timestep recommendation is emitted exactly when the
\* ratio alpha * dt / dx^2 of the run exceeds 0.5, its dt bound makes the
\* ratio equal 0.5, and a nonlinearity recommendation is emitted exactly
\* when the mean Lyapunov exponent of the run is positive
C23_Recommendations ==
    Recommended =>
        /\ Recommends("timestep") <=> Gt(call.analysed.courantNumber, 5)
        /\ (Recommends("timestep") /\ IsFinite(call.analysed.courantNumber)) =>
               2 * call.analysed.courantNumber * BoundOf("timestep")
                   = 10 * call.params.dt
        /\ Recommends("nonlinearity") <=> Gt(call.analysed.averageLyapunov, 0)

\* C23 (amended): a timestep recommendation is emitted exactly when the von
\* Neumann result is present and its courantNumber exceeds 0.5, its dt
\* bound is within half of 1e-4 of the dt that makes the ratio 0.5, and a
\* nonlinearity recommendation is emitted exactly when the Lyapunov result
\* is present and its averageLyapunov exceeds 0.1; the timestep
\* recommendation comes first and the input is left as it was
C23_RecommendationsOfResults ==
    Recommended =>
        /\ Recommends("timestep") <=>
               /\ "vonNeumann" \in DOMAIN call.results
               /\ Gt(call.analysed.courantNumber, 5)
        /\ (Recommends("timestep") /\ IsFinite(call.analysed.courantNumber)) =>
               AbsInt(2 * call.analysed.courantNumber * BoundOf("timestep")
                          - 10 * call.params.dt) <= call.analysed.courantNumber
        /\ Recommends("nonlinearity") <=>
               /\ "lyapunov" \in DOMAIN call.results
               /\ Gt(call.analysed.averageLyapunov, 10)
        /\ Len(ret.value) <= 2
        /\ Len(ret.value) = 2 => ret.value[1].type = "timestep"

\* both recommendations, the bound a rounded one
C23_Witness ==
    /\ Recommended
    /\ Recommends("timestep")
    /\ Recommends("nonlinearity")
    /\ IsFinite(call.analysed.courantNumber)
    /\ 2 * call.analysed.courantNumber * BoundOf("timestep") # 10 * call.params.dt

-----------------------------------------------------------------------------
(* ChartManager: one registered chart.  heap[1] is chart.data.labels and    *)
(* heap[2] is chart.data.datasets[0].data; ghost.points lists the labels    *)
(* the chart was given, in the order it was given them, since it was        *)
(* created or its labels were last replaced.                                *)

MaxPoints == 2

MaxCalls == 3

ChartLabels == heap[1]

ChartData == heap[2]

Tail1(s) == SubSeq(s, 2, Len(s))

\* createStabilityChart(canvasId, data): one label and one value per point
CreatedChart(data) ==
    << [i \in 1..Len(data) |-> data[i].time],
       [i \in 1..Len(data) |-> data[i].maxAmp] >>

\* the points of a data set of n points: times 1..n, amplitudes 0
PointsUpTo(n) == [i \in 1..n |-> [time |-> i, maxAmp |-> 0]]

\* updateChart(canvasId, newData) with an array of numbers, or an empty one
UpdateChartSimple ==
    /\ call.entry \in {"createChart", "updateChart", "addRealtimeData"}
    /\ ghost.calls < MaxCalls
    /\ \E n \in 0..MaxPoints + 1 :
           /\ heap' = <<ChartLabels, [i \in 1..n |-> 1]>>
           /\ call' = [entry |-> "updateChart", newData |-> "numbers",
                       length |-> n]
    /\ ghost' = [ghost EXCEPT !.calls = @ + 1]
    /\ UNCHANGED <<op, pc, initialized, rng, noise, run, mainSim, pertSim,
                   results, ret>>

\* updateChart(canvasId, newData) with an array of {x, y} objects, every x
\* truthy
UpdateChartObjects ==
    /\ call.entry \in {"createChart", "updateChart", "addRealtimeData"}
    /\ ghost.calls < MaxCalls
    /\ \E n \in 1..MaxPoints + 1 :
           /\ heap' = << [i \in 1..n |-> 10 + i], [i \in 1..n |-> 1] >>
           /\ call' = [entry |-> "updateChart", newData |-> "objects",
                       length |-> n]
           /\ ghost' = [calls |-> ghost.calls + 1,
                        points |-> [i \in 1..n |-> 10 + i]]
    /\ UNCHANGED <<op, pc, initialized, rng, noise, run, mainSim, pertSim,
                   results, ret>>

\* addRealtimeData(canvasId, label, value, maxPoints)
AddRealtimeData ==
    /\ call.entry \in {"createChart", "updateChart", "addRealtimeData"}
    /\ ghost.calls < MaxCalls
    /\ \E value \in {0, 1}, maxPoints \in 1..MaxPoints :
       \E label \in {100 + ghost.calls} :
           /\ heap' = IF Len(ChartLabels) + 1 > maxPoints
                      THEN << Tail1(Append(ChartLabels, label)),
                              Tail1(Append(ChartData, value)) >>
                      ELSE << Append(ChartLabels, label),
                              Append(ChartData, value) >>
           /\ call' = [entry |-> "addRealtimeData", label |-> label,
                       value |-> value, maxPoints |-> maxPoints]
           /\ ghost' = [calls |-> ghost.calls + 1,
                        points |-> Append(ghost.points, label)]
    /\ UNCHANGED <<op, pc, initialized, rng, noise, run, mainSim, pertSim,
                   results, ret>>

ChartInit ==
    \E n \in 0..MaxPoints + 1 :
        /\ op = Null
        /\ call = [entry |-> "createChart", length |-> n]
        /\ pc = "idle"
        /\ initialized = FALSE
        /\ rng = 0
        /\ heap = CreatedChart(PointsUpTo(n))
        /\ noise = <<>>
        /\ run = Null
        /\ mainSim = Null
        /\ pertSim = Null
        /\ results = Null
        /\ ret = Null
        /\ ghost = [calls |-> 0, points |-> [i \in 1..n |-> i]]

ChartNext ==
    \/ UpdateChartSimple
    \/ UpdateChartObjects
    \/ AddRealtimeData

SpecChart == ChartInit /\ [][ChartNext]_vars

-----------------------------------------------------------------------------
(* Claims about the realtime window, checked under SpecChart *)

\* the last n entries of s
LastOf(s, n) == SubSeq(s, Len(s) - n + 1, Len(s))

\* C24 (as stated): after an addRealtimeData call the chart holds at most
\* maxPoints labels, as many values as labels, and its labels are the most
\* recently given ones in the order they were given
C24_RealtimeWindow ==
    call.entry = "addRealtimeData" =>
        /\ Len(ChartLabels) <= call.maxPoints
        /\ Len(ChartLabels) = Len(ChartData)
        /\ Len(ChartLabels) <= Len(ghost.points)
        /\ ChartLabels = LastOf(ghost.points, Len(ChartLabels))

-----------------------------------------------------------------------------
(* Claims about initialize(), checked under SpecAnalyze *)

AnalyzeDone == call.entry = "analyzeStability" /\ pc = "done"

\* C25 (as stated): analyzeStability with a non-empty methods selection
\* returns a report only if initialize() was called before it; called
\* before initialize() it fails, only after both simulations have run, and
\* this.results (what getResults returns) is what it was before the call
C25_ReportNeedsInitialize ==
    (AnalyzeDone /\ call.methods # {}) =>
        /\ ret.kind = "return" => initialized
        /\ ~initialized =>
               /\ ret.kind = "throw"
               /\ mainSim # Null
               /\ pertSim # Null
               /\ results = Null

\* C26 (as stated): whenever the main simulation of analyzeStability is
\* classified unstable, the report is not stable, whatever the methods
C26_UnstableRunUnstableReport ==
    (AnalyzeDone /\ ret.kind = "return"
       /\ ~ret.value.mainSimulation.isStable) =>
        ~ret.value.isStable

-----------------------------------------------------------------------------
(* Claims about checkpoint labels, checked under SpecRun *)

\* C27 (as stated): the time label of every checkpoint is dt times the
\* number of steps applied to the field stored in it, the checkpoint
\* labelled 0 holds the initial field, and the first amplitude of the
\* metrics of a simulation is the amplitude of its initial field
C27_CheckpointLabel ==
    /\ \A sim \in Sims :
           \A k \in 1..Len(ghost[sim].frozen) :
               LET checkpoint == ghost[sim].frozen[k]
               IN  /\ checkpoint.time = Mul(checkpoint.applied, call.params.dt)
                   /\ checkpoint.time = 0 =>
                          checkpoint.psi = ghost[sim].init[1].psi
    /\ (~IsNull(mainSim) /\ mainSim.metrics.maxAmplitude # <<>>) =>
           mainSim.metrics.maxAmplitude[1]
               = MaxAmplitude(ghost["main"].init[1].psi)

-----------------------------------------------------------------------------
(* Claims about the first correlated entry, checked under SpecNoise *)

-----------------------------------------------------------------------------
(* UIControls: the five sliders and runAnalysis.  alpha is counted in       *)
(* tenths, beta and gamma in hundredths, fractal and dt in thousandths.     *)
(* run.sliders holds the slider values, ret the outcome of the last call.   *)

\* setupSliders: min, max and default of every slider
SliderConfigs ==
    [alpha   |-> [min |-> 1,   max |-> 20,   default |-> 10],
     beta    |-> [min |-> 1,   max |-> 50,   default |-> 10],
     gamma   |-> [min |-> 1,   max |-> 50,   default |-> 10],
     fractal |-> [min |-> 500, max |-> 1500, default |-> 921],
     dt      |-> [min |-> 1,   max |-> 100,  default |-> 10]]

SliderDefaults == [param \in DOMAIN SliderConfigs |-> SliderConfigs[param].default]

\* showPresets: the built-in presets
Presets ==
    [stable  |-> [alpha |-> 10, beta |-> 5,  gamma |-> 10, fractal |-> 921,
                  dt |-> 10],
     chaotic |-> [alpha |-> 5,  beta |-> 30, gamma |-> 5,  fractal |-> 1200,
                  dt |-> 5],
     fractal |-> [alpha |-> 15, beta |-> 10, gamma |-> 20, fractal |-> 1500,
                  dt |-> 1],
     minimal |-> [alpha |-> 5,  beta |-> 1,  gamma |-> 1,  fractal |-> 500,
                  dt |-> 10]]

\* slider.value = value: a range input keeps its value within [min, max]
SliderValue(param, value) ==
    LET config == SliderConfigs[param]
    IN  IF value < config.min THEN config.min
        ELSE IF value > config.max THEN config.max
        ELSE value

\* validateParameters: the types of the warnings for the given parameters;
\* the Courant number is alpha * dt / 0.1^2 and maxDt is
\* 0.1 / (alpha + beta + gamma)
Warnings(params) ==
    {w \in {"stability", "noise", "fractal", "timestep"} :
        CASE w = "stability" -> params.alpha * params.dt > 50
          [] w = "noise"     -> params.beta > 30
          [] w = "fractal"   -> params.fractal < 500 \/ params.fractal > 1500
          [] w = "timestep"  ->
                 params.dt * (10 * params.alpha + params.beta + params.gamma)
                     > 10000}

\* the positions a slider is moved to
SliderPositions ==
    [alpha   |-> {1, 5, 10, 15, 20},
     beta    |-> {1, 5, 10, 30, 31, 50},
     gamma   |-> {1, 5, 10, 20, 50},
     fractal |-> {500, 921, 1200, 1500},
     dt      |-> {1, 5, 10, 50, 100}]

\* the 'input' event of a slider
MoveSlider ==
    /\ call.entry = "UIControls"
    /\ \E param \in DOMAIN SliderConfigs :
       \E value \in SliderPositions[param] :
           /\ run' = [run EXCEPT !.sliders[param] = SliderValue(param, value)]
           /\ call' = [call EXCEPT !.last = "input"]
    /\ ret' = Null
    /\ UNCHANGED <<op, pc, initialized, rng, heap, noise, mainSim, pertSim,
                   results, ghost>>

\* resetParameters()
ResetParameters ==
    /\ call.entry = "UIControls"
    /\ run' = [run EXCEPT !.sliders = SliderDefaults]
    /\ call' = [call EXCEPT !.last = "resetParameters"]
    /\ ret' = Null
    /\ UNCHANGED <<op, pc, initialized, rng, heap, noise, mainSim, pertSim,
                   results, ghost>>

\* a click on a preset of the modal: setParameters(presets[key].params)
SetParameters ==
    /\ call.entry = "UIControls"
    /\ \E key \in DOMAIN Presets :
           /\ run' = [run EXCEPT !.sliders =
                          [param \in DOMAIN SliderConfigs |->
                              SliderValue(param, Presets[key][param])]]
           /\ call' = [call EXCEPT !.last = "setParameters"]
    /\ ret' = Null
    /\ UNCHANGED <<op, pc, initialized, rng, heap, noise, mainSim, pertSim,
                   results, ghost>>

\* runAnalysis(): returns without an event when validateParameters() found
\* a warning, and dispatches 'runAnalysis' with the parameters otherwise
RunAnalysis ==
    /\ call.entry = "UIControls"
    /\ \E warnings \in {Warnings(run.sliders)} :
           ret' = Returned(
                      [warnings |-> warnings,
                       dispatched |->
                           IF warnings # {} THEN <<>>
                           ELSE << [type |-> "runAnalysis",
                                    params |-> run.sliders] >>])
    /\ call' = [call EXCEPT !.last = "runAnalysis"]
    /\ UNCHANGED <<op, pc, initialized, rng, heap, noise, run, mainSim,
                   pertSim, results, ghost>>

\* after initialize(): every slider at its default
ControlsInit ==
    /\ op = Null
    /\ call = [entry |-> "UIControls", last |-> "initialize"]
    /\ pc = "idle"
    /\ initialized = TRUE
    /\ rng = 0
    /\ heap = <<>>
    /\ noise = <<>>
    /\ run = [sliders |-> SliderDefaults]
    /\ mainSim = Null
    /\ pertSim = Null
    /\ results = Null
    /\ ret = Null
    /\ ghost = Null

ControlsNext ==
    \/ MoveSlider
    \/ ResetParameters
    \/ SetParameters
    \/ RunAnalysis

SpecControls == ControlsInit /\ [][ControlsNext]_vars

-----------------------------------------------------------------------------
(* Claims about runAnalysis, checked under SpecControls *)

\* C30 (as stated): runAnalysis() dispatches the 'runAnalysis' event
\* exactly when validation of the slider values gives no warning, and it
\* dispatches with the sliders at their defaults and with the sliders at
\* the values of any built-in preset
C30_RunAnalysisDispatches ==
    (call.entry = "UIControls" /\ call.last = "runAnalysis") =>
        /\ ret.value.dispatched # <<>> <=> ret.value.warnings = {}
        /\ run.sliders = SliderDefaults => ret.value.dispatched # <<>>
        /\ \A key \in DOMAIN Presets :
               run.sliders = Presets[key] => ret.value.dispatched # <<>>

====
